---- MODULE Spec2Model ----
(***************************************************************************)
(* A model of the emojiq engine (src-tauri/src/emoji_manager.rs): the      *)
(* usage ledger with its debounced write-back worker, the retryable        *)
(* initialize, and the query engine with its ranker.                       *)
(*                                                                         *)
(* Strings are sequences of Unicode code points (integers); a HashMap is a *)
(* function whose DOMAIN is its key set; the ranks file is a record        *)
(* holding a JSON document, modelled as the set of the object's members.   *)
(* Time is discrete, one unit per second: last_write_time holds the time   *)
(* elapsed since the Instant it stores, saturated at write_delay.          *)
(***************************************************************************)
EXTENDS Integers, Sequences, FiniteSets, TLC

(***************************************************************************)
(* Bounds of the model.                                                    *)
(***************************************************************************)
NumThreads == 2
MaxCalls == 3
MaxAmount == 2
MaxWorkers == 2

Threads == 1..NumThreads
WorkerIds == 1..MaxWorkers

(***************************************************************************)
(* Program constants (constants.rs).                                       *)
(***************************************************************************)
RANK_WRITE_DELAY_SECS == 2
write_delay == RANK_WRITE_DELAY_SECS

MIN_SEARCH_LENGTH == 2
MAX_SEARCH_RESULTS == 2000
MIN_KEYWORD_LENGTH == 2
MAX_PREFIX_LENGTH == 12
DEFAULT_MAX_TOP_EMOJIS == 10
VARIATION_SELECTOR == 65039

Min(a, b) == IF a < b THEN a ELSE b

(***************************************************************************)
(* Strings: sequences of code points.                                      *)
(***************************************************************************)
Range(s) == {s[i] : i \in 1..Len(s)}

\* the number of bytes of a char in UTF-8
Utf8Len(c) == IF c < 128 THEN 1 ELSE IF c < 2048 THEN 2 ELSE IF c < 65536 THEN 3 ELSE 4

\* str::len: the length in bytes
RECURSIVE ByteLen(_)
ByteLen(s) == IF s = <<>> THEN 0 ELSE Utf8Len(Head(s)) + ByteLen(Tail(s))

\* char lowercasing, on the ASCII letters
LowerChar(c) == IF c >= 65 /\ c <= 90 THEN c + 32 ELSE c
ToLowercase(s) == [i \in 1..Len(s) |-> LowerChar(s[i])]
ReplaceChar(s, from, to) == [i \in 1..Len(s) |-> IF s[i] = from THEN to ELSE s[i]]

\* char::is_whitespace, on the characters of the model: tab, newline, space
IsWhitespace(c) == c \in {9, 10, 32}

\* str::trim
Trim(s) ==
    LET solid == {i \in 1..Len(s) : ~IsWhitespace(s[i])}
    IN  IF solid = {} THEN <<>>
        ELSE SubSeq(s, CHOOSE i \in solid : \A j \in solid : i <= j,
                       CHOOSE i \in solid : \A j \in solid : j <= i)

\* str::split_whitespace
RECURSIVE SplitWhitespace(_)
SplitWhitespace(s) ==
    LET solid == {i \in 1..Len(s) : ~IsWhitespace(s[i])}
    IN  IF solid = {} THEN <<>>
        ELSE LET first == CHOOSE i \in solid : \A j \in solid : i <= j
                 gaps == {i \in first..Len(s) : IsWhitespace(s[i])}
                 stop == IF gaps = {} THEN Len(s) + 1
                         ELSE CHOOSE i \in gaps : \A j \in gaps : i <= j
             IN  <<SubSeq(s, first, stop - 1)>> \o SplitWhitespace(SubSeq(s, stop, Len(s)))

\* strip_variation_selector
StripVariationSelector(s) == SelectSeq(s, LAMBDA c : c # VARIATION_SELECTOR)

(***************************************************************************)
(* Item ids used by the concurrency model: two glyphs.                     *)
(***************************************************************************)
GlyphA == <<128512>>
GlyphB == <<128198>>
Glyphs == {GlyphA, GlyphB}
NoEmoji == <<>>

(***************************************************************************)
(* HashMap<String, u32> helpers.                                           *)
(***************************************************************************)
EmptyLedger == [k \in {} |-> 0]
Count(r, k) == IF k \in DOMAIN r THEN r[k] ELSE 0
Put(r, k, v) == [x \in (DOMAIN r) \cup {k} |-> IF x = k THEN v ELSE r[x]]
\* a slip: the counter is set to 0 and the entry stays
RemoveZeroed(r, k) == [x \in (DOMAIN r) \cup {k} |-> IF x = k THEN 0 ELSE r[x]]
Remove(r, k) == [x \in (DOMAIN r) \ {k} |-> r[x]]

(***************************************************************************)
(* Option<u32>: <<>> is None, <<a>> is Some(a).                            *)
(***************************************************************************)
None == <<>>
Some(a) == <<a>>
\* a slip: an omitted amount counts as 0
UnwrapOrZero(opt, d) == IF opt = None THEN 0 ELSE opt[1]
UnwrapOr(opt, d) == IF opt = None THEN d ELSE opt[1]

(***************************************************************************)
(* u32, the type of a usage counter.  TLC's integers are 32 bits wide and  *)
(* signed, so a u32 is held as the signed integer with the same 32 bits:   *)
(* 0..2^31-1 are themselves, 2^31..2^32-1 are -2^31..-1, u32::MAX is -1.   *)
(***************************************************************************)
I32_MAX == 2147483647
U32_MAX == -1

\* x < y as u32
U32Less(x, y) == IF (x < 0) = (y < 0) THEN x < y ELSE x >= 0

\* u32::wrapping_add: x + y modulo 2^32
WrappingAdd(x, y) ==
    IF x >= 0 /\ y >= 0 /\ x > I32_MAX - y
    THEN (x - I32_MAX - 1) + (y - I32_MAX - 1)
    ELSE IF x < 0 /\ y < 0 /\ x < (-I32_MAX - 1) - y
    THEN (x + I32_MAX + 1) + (y + I32_MAX + 1)
    ELSE x + y

\* u32::checked_add is None: the sum does not fit
AddOverflows(x, y) == U32Less(WrappingAdd(x, y), x)

(***************************************************************************)
(* serde_json on the ledger: the document of a map is the set of its       *)
(* members; a file is missing, holds a JSON object, or holds bytes that    *)
(* are no ledger document.                                                 *)
(***************************************************************************)
ToJson(r) == {<<k, r[k]>> : k \in DOMAIN r}
FromJson(doc) == [k \in {m[1] : m \in doc} |-> (CHOOSE m \in doc : m[1] = k)[2]]
JsonFile(doc) == [kind |-> "json", doc |-> doc]
MissingFile == [kind |-> "missing", doc |-> {}]
GarbageFile == [kind |-> "garbage", doc |-> {}]
\* the same for the catalog file, whose document is an array
MissingEmojiFile == [kind |-> "missing", doc |-> <<>>]
GarbageEmojiFile == [kind |-> "garbage", doc |-> <<>>]

(***************************************************************************)
(* EmojiData: the fields the engine reads.  An Option is <<>> (None) or    *)
(* <<v>> (Some(v)); category, unicode_version and ios_version are carried  *)
(* by the JSON only and read nowhere.                                      *)
(***************************************************************************)
EmojiData(emoji, description, aliases, tags) ==
    [emoji |-> emoji, description |-> description, aliases |-> aliases, tags |-> tags]

\* Option::as_deref().unwrap_or(default)
OptOr(opt, default) == IF opt = <<>> THEN default ELSE opt[1]

\* .to_lowercase().replace('_', " ")
KeywordNormalize(s) == ReplaceChar(ToLowercase(s), 95, 32)

\* sort_by_key(|k| k.len()): a stable sort by byte length
InsertByLen(sorted, x) ==
    LET n == Cardinality({i \in 1..Len(sorted) : ByteLen(sorted[i]) <= ByteLen(x)})
    IN  SubSeq(sorted, 1, n) \o <<x>> \o SubSeq(sorted, n + 1, Len(sorted))

RECURSIVE SortByLen(_)
SortByLen(s) ==
    IF s = <<>> THEN <<>>
    ELSE InsertByLen(SortByLen(SubSeq(s, 1, Len(s) - 1)), s[Len(s)])

\* a slip: every keyword is pushed, seen or not
PushSeenToo(kws, rest) == kws \o rest

\* the loop over all_keywords: push what `seen` does not hold yet
RECURSIVE PushUnseen(_, _)
PushUnseen(kws, rest) ==
    IF rest = <<>> THEN kws
    ELSE PushUnseen(IF Head(rest) \in Range(kws) THEN kws ELSE Append(kws, Head(rest)),
                    Tail(rest))

\* build_keywords: the keyword list of one item
ItemKeywords(item) ==
    LET description == KeywordNormalize(OptOr(item.description, <<>>))
        raw == OptOr(item.aliases, <<>>) \o OptOr(item.tags, <<>>)
        all_keywords == SortByLen([i \in 1..Len(raw) |-> KeywordNormalize(raw[i])])
    IN  PushUnseen(<<description>>, all_keywords)

\* keywords_map.insert over the items lo..hi; a later insert replaces an earlier one
RECURSIVE InsertKeywords(_, _, _)
InsertKeywords(ems, lo, hi) ==
    IF lo > hi THEN EmptyLedger
    ELSE IF lo = hi THEN ems[lo].emoji :> ItemKeywords(ems[lo])
    ELSE LET mid == (lo + hi) \div 2
         IN  InsertKeywords(ems, mid + 1, hi) @@ InsertKeywords(ems, lo, mid)

\* build_keywords: keywords_map
BuildKeywordsMap(ems) == InsertKeywords(ems, 1, Len(ems))

RECURSIVE Flatten(_)
Flatten(ss) == IF ss = <<>> THEN <<>> ELSE Head(ss) \o Flatten(Tail(ss))

\* a slip: the prefix loop runs over MIN_KEYWORD_LENGTH..cap, without the cap
IndexKeywordKeysExclusive(kw) ==
    IF ByteLen(kw) >= MIN_KEYWORD_LENGTH
    THEN LET cap == Min(MAX_PREFIX_LENGTH, Len(kw))
         IN  <<kw>> \o [i \in 1..(cap - MIN_KEYWORD_LENGTH) |->
                           SubSeq(kw, 1, MIN_KEYWORD_LENGTH + i - 1)]
    ELSE <<>>

\* index_keyword: the keys one keyword is pushed under, in order
IndexKeywordKeys(kw) ==
    IF ByteLen(kw) >= MIN_KEYWORD_LENGTH
    THEN LET cap == Min(MAX_PREFIX_LENGTH, Len(kw))
         IN  <<kw>> \o [i \in 1..(cap - MIN_KEYWORD_LENGTH + 1) |->
                           SubSeq(kw, 1, MIN_KEYWORD_LENGTH + i - 1)]
    ELSE <<>>

IndexKeyword(kws) == Flatten([i \in 1..Len(kws) |-> IndexKeywordKeys(kws[i])])

\* a slip: the keyword is split without replacing its hyphens
WordKeysUnhyphenated(keyword) ==
    LET words == SplitWhitespace(keyword)
    IN  IF Len(words) > 1 THEN IndexKeyword(words) ELSE <<>>

\* keyword.replace('-', " ").split_whitespace(), indexed when more than one word
WordKeys(keyword) ==
    LET words == SplitWhitespace(ReplaceChar(keyword, 45, 32))
    IN  IF Len(words) > 1 THEN IndexKeyword(words) ELSE <<>>

\* the keys an item's position is pushed under, in order
ItemPushes(kws) == IndexKeyword(kws) \o Flatten([i \in 1..Len(kws) |-> WordKeys(kws[i])])

\* sort_unstable on positions
InsertSorted(sorted, x) ==
    LET n == Cardinality({i \in 1..Len(sorted) : sorted[i] <= x})
    IN  SubSeq(sorted, 1, n) \o <<x>> \o SubSeq(sorted, n + 1, Len(sorted))

RECURSIVE SortUnstable(_)
SortUnstable(s) ==
    IF s = <<>> THEN <<>>
    ELSE InsertSorted(SortUnstable(SubSeq(s, 1, Len(s) - 1)), s[Len(s)])

\* Vec::dedup: consecutive repeats are removed
RECURSIVE Dedup(_)
Dedup(s) ==
    IF Len(s) <= 1 THEN s
    ELSE IF s[1] = s[2] THEN Dedup(Tail(s))
    ELSE <<s[1]>> \o Dedup(Tail(s))

\* build_index: index_map, positions counted from 0
BuildIndexMap(ems, kwmap) ==
    LET pushes == [i \in 1..Len(ems) |->
                     IF ems[i].emoji \in DOMAIN kwmap
                     THEN ItemPushes(kwmap[ems[i].emoji]) ELSE <<>>]
        keys == UNION {Range(pushes[i]) : i \in 1..Len(ems)}
    IN  [k \in keys |->
           Dedup(SortUnstable(Flatten([i \in 1..Len(ems) |->
               [j \in 1..Len(SelectSeq(pushes[i], LAMBDA x : x = k)) |-> i - 1]])))]

(***************************************************************************)
(* The ranker.  `order` is the order in which the HashMap iterates over    *)
(* its keys: a sequence that holds every key of the ledger once.           *)
(***************************************************************************)
\* a slip: ascending instead of Reverse(count)
InsertByCountAsc(sorted, x, r) ==
    LET n == Cardinality({i \in 1..Len(sorted) : ~U32Less(r[x], r[sorted[i]])})
    IN  SubSeq(sorted, 1, n) \o <<x>> \o SubSeq(sorted, n + 1, Len(sorted))

\* sort_by_key(|(_, &count)| Reverse(count)): a stable sort, highest count first
InsertByCountDesc(sorted, x, r) ==
    LET n == Cardinality({i \in 1..Len(sorted) : ~U32Less(r[sorted[i]], r[x])})
    IN  SubSeq(sorted, 1, n) \o <<x>> \o SubSeq(sorted, n + 1, Len(sorted))

RECURSIVE SortByCountDesc(_, _)
SortByCountDesc(s, r) ==
    IF s = <<>> THEN <<>>
    ELSE InsertByCountDesc(SortByCountDesc(SubSeq(s, 1, Len(s) - 1), r), s[Len(s)], r)

Take(s, n) == SubSeq(s, 1, Min(n, Len(s)))

get_top_emojis_from_ranks(r, limit, order) ==
    IF DOMAIN r = {} THEN <<>> ELSE Take(SortByCountDesc(order, r), limit)

\* a slip: with no ranks the early return gives an empty Vec, as
\* get_top_emojis_from_ranks does, instead of the list
order_emojis_empty_without_ranks(list, max_top_emojis, r, order) ==
    IF DOMAIN r = {} THEN <<>>
    ELSE LET top_emojis == get_top_emojis_from_ranks(r, max_top_emojis, order)
         IN  SelectSeq(top_emojis, LAMBDA e : e \in Range(list))
                 \o SelectSeq(list, LAMBDA e : e \notin Range(top_emojis))

\* a slip: the top emojis are pushed without asking whether the list holds them
order_emojis_unfiltered(list, max_top_emojis, r, order) ==
    IF DOMAIN r = {} THEN list
    ELSE LET top_emojis == get_top_emojis_from_ranks(r, max_top_emojis, order)
         IN  top_emojis \o SelectSeq(list, LAMBDA e : e \notin Range(top_emojis))

\* a slip: the second pass pushes every item of the list, pinned or not
order_emojis_rest_unfiltered(list, max_top_emojis, r, order) ==
    IF DOMAIN r = {} THEN list
    ELSE LET top_emojis == get_top_emojis_from_ranks(r, max_top_emojis, order)
         IN  SelectSeq(top_emojis, LAMBDA e : e \in Range(list)) \o list

order_emojis_by_usage(list, max_top_emojis, r, order) ==
    IF DOMAIN r = {} THEN list
    ELSE LET top_emojis == get_top_emojis_from_ranks(r, max_top_emojis, order)
         IN  SelectSeq(top_emojis, LAMBDA e : e \in Range(list))
                 \o SelectSeq(list, LAMBDA e : e \notin Range(top_emojis))

(***************************************************************************)
(* The query engine.                                                       *)
(***************************************************************************)
\* a slip: the browse-all branch without .take(MAX_SEARCH_RESULTS)
BrowseAllUncapped(ems) == [i \in 1..Len(ems) |-> ems[i].emoji]

\* data.emojis.iter().take(MAX_SEARCH_RESULTS).map(|e| e.emoji.clone())
BrowseAll(ems) == [i \in 1..Min(MAX_SEARCH_RESULTS, Len(ems)) |-> ems[i].emoji]

\* a slip: a query without a bucket falls back to the whole catalog
IndexLookupOrAll(ems, idx, word) ==
    IF word \in DOMAIN idx
    THEN LET hits == SelectSeq(Take(idx[word], MAX_SEARCH_RESULTS),
                               LAMBDA pos : pos < Len(ems))
         IN  [i \in 1..Len(hits) |-> ems[hits[i] + 1].emoji]
    ELSE BrowseAll(ems)

\* emoji_indices.iter().take(MAX_SEARCH_RESULTS).filter_map(get).map(emoji)
IndexLookup(ems, idx, word) ==
    IF word \in DOMAIN idx
    THEN LET hits == SelectSeq(Take(idx[word], MAX_SEARCH_RESULTS),
                               LAMBDA pos : pos < Len(ems))
         IN  [i \in 1..Len(hits) |-> ems[hits[i] + 1].emoji]
    ELSE <<>>

\* a slip: only the query as typed is tried, not its U+FE0F-stripped variant
glyph_bypass_exact(original, kwmap) ==
    IF original \in DOMAIN kwmap THEN Some(<<original>>) ELSE None

\* the block that returns a glyph the user entered directly: Some(result) or None
glyph_bypass(original, kwmap) ==
    LET stripped == StripVariationSelector(original)
    IN  IF original \in DOMAIN kwmap THEN Some(<<original>>)
        ELSE IF stripped # original /\ stripped \in DOMAIN kwmap THEN Some(<<stripped>>)
        ELSE None

\* let emoji_list = if filter_word.len() < MIN_SEARCH_LENGTH { .. } else { .. }
emoji_list(word, ems, idx) ==
    IF ByteLen(word) < MIN_SEARCH_LENGTH
    THEN BrowseAll(ems)
    ELSE IndexLookup(ems, idx, word)

\* a slip: a pin count of 0 is taken as "use the default" instead of "skip"
ordered_emojis_default(list, max_top_emojis, r, order) ==
    order_emojis_by_usage(list,
                          IF max_top_emojis = 0 THEN DEFAULT_MAX_TOP_EMOJIS
                          ELSE max_top_emojis, r, order)

\* let ordered_emojis = if max_top_emojis == 0 { emoji_list } else { .. }
ordered_emojis(list, max_top_emojis, r, order) ==
    IF max_top_emojis = 0 THEN list
    ELSE order_emojis_by_usage(list, max_top_emojis, r, order)

get_emojis(filter_word, max_top_emojis, ems, kwmap, idx, r, order) ==
    LET original == Trim(filter_word)
        bypass == glyph_bypass(original, kwmap)
    IN  IF bypass # None THEN bypass[1]
        ELSE ordered_emojis(emoji_list(ToLowercase(original), ems, idx),
                            max_top_emojis, r, order)

\* a slip: the id is looked up with U+FE0F stripped, as get_emojis retries it
get_keywords_stripped(emoji, kwmap) ==
    IF StripVariationSelector(emoji) \in DOMAIN kwmap
    THEN kwmap[StripVariationSelector(emoji)] ELSE <<>>

\* data.keywords.get(emoji).map(clone).unwrap_or_default()
get_keywords(emoji, kwmap) == IF emoji \in DOMAIN kwmap THEN kwmap[emoji] ELSE <<>>

VARIABLES
    emojis,              \* data.emojis
    ranks,               \* data.ranks
    keywords,            \* data.keywords
    index,               \* data.index
    emojis_loaded,
    ranks_loaded,
    keywords_built,
    index_built,
    data_writer,         \* holder of the exclusive side of the data RwLock
    pending_writes,
    last_write_time,     \* elapsed time since the stored Instant
    write_worker_active,
    init_lock,           \* holder of init_lock
    init_success,
    emoji_file,          \* the catalog document load_emojis reads
    ranks_file,          \* the file at ranks_file_path
    thr,                 \* the callers of the public operations
    worker,              \* the spawned write-back threads
    search,              \* the last get_emojis call and what it returned
    ncalls,              \* history: operations called so far
    ops_seen,            \* history: names of the operations called so far
    expected,            \* history: initial counts plus the amounts of the calls
    nwrites,             \* history: durable writes made by workers
    write_failed,        \* history: some durable write failed
    in_window,           \* history: every stamp came < write_delay after the last
    stamped,             \* history: some call has set last_write_time
    stores,              \* history: how often each builder stored its result
    init_failures,       \* history: initialize calls that returned Err
    last_return          \* history: the most recent return of an operation

catVars == <<emojis, keywords, index, emojis_loaded, keywords_built, index_built>>
initVars == <<init_lock, init_success, emoji_file, ranks_loaded, stores, init_failures>>
schedVars == <<pending_writes, last_write_time, write_worker_active, worker>>
histVars == <<ncalls, ops_seen, expected, nwrites, write_failed, in_window, stamped>>

vars == <<emojis, ranks, keywords, index, emojis_loaded, ranks_loaded, keywords_built,
          index_built, data_writer, pending_writes, last_write_time,
          write_worker_active, init_lock, init_success, emoji_file, ranks_file, thr,
          worker, search, ncalls, ops_seen, expected, nwrites, write_failed,
          in_window, stamped, stores, init_failures, last_return>>

NoThread == 0
\* the value of data_writer once a holder of the write guard has panicked:
\* the RwLock is poisoned and every later read() or write() gives Err
Poisoned == -1
IdleThread == [pc |-> "idle", op |-> "none", emoji |-> NoEmoji, given |-> None,
               amount |-> 0, raced |-> FALSE, late |-> FALSE, stack |-> <<>>,
               content |-> <<>>]
NoWorker == [pc |-> "none", p |-> FALSE, remaining |-> 0, ranks_data |-> EmptyLedger]
NoReturn == [op |-> "none", result |-> "none"]

(***************************************************************************)
(* The data RwLock.  Shared holders keep it for one step only, so the      *)
(* state records the exclusive holder alone.                               *)
(***************************************************************************)
DataLockFree == data_writer = NoThread

\* a slip: the worker's read guard is bound to a name that lives until the
\* file is written
ReadGuardPlacesThroughWrite == {"unlock", "write"}

\* the places at which a worker holds the shared guard of data.read(): from
\* the clone of the ledger to the end of the match
ReadGuardPlaces == {"unlock"}

Return(t, res) ==
    /\ thr' = [thr EXCEPT ![t] = IdleThread]
    /\ last_return' = [op |-> thr[t].op, result |-> res]

(***************************************************************************)
(* increment_usage(emoji, amount)                                          *)
(***************************************************************************)
\* a slip: the entry is overwritten with the amount instead of being added to
AddUsageOverwrite(r, e, a) == Put(r, e, a)

\* entry(emoji).or_insert(0), then *count += amount, when the sum wraps or fits
AddUsage(r, e, a) == Put(r, e, WrappingAdd(Count(r, e), a))

\* history: the call is made when the worker has failed to write and has not
\* yet given up write_worker_active
AfterFailedWrite ==
    /\ nwrites = 0
    /\ write_failed
    /\ \E w \in WorkerIds : worker[w].pc = "finish"

IncrementUsage(t, e, amt) ==
    /\ thr[t].pc = "idle"
    /\ ncalls < MaxCalls
    /\ thr' = [thr EXCEPT ![t] = [IdleThread EXCEPT !.pc = "inc_lock",
                                     !.op = "increment_usage", !.emoji = e,
                                     !.given = amt,
                                     !.amount = UnwrapOr(amt, 1),
                                     !.late = AfterFailedWrite]]
    /\ ncalls' = ncalls + 1
    /\ ops_seen' = ops_seen \cup {"increment_usage"}
    /\ expected' = Put(expected, e, Count(expected, e) + UnwrapOr(amt, 1))
    /\ UNCHANGED <<ranks, data_writer, ranks_file, search, last_return, nwrites,
                   write_failed, in_window, stamped, catVars, initVars, schedVars>>

\* the workers that hold the shared guard
Readers == {w \in WorkerIds : worker[w].pc \in ReadGuardPlaces}

\* self.data.write().map_lock_err()?: the guard, or Err when poisoned
WriteLock(t, pc) ==
    IF data_writer = Poisoned
    THEN /\ Return(t, "Err")
         /\ UNCHANGED data_writer
    ELSE /\ DataLockFree
         /\ Readers = {}
         /\ data_writer' = t
         /\ thr' = [thr EXCEPT ![t].pc = pc]
         /\ UNCHANGED last_return

IncLock(t) ==
    /\ thr[t].pc = "inc_lock"
    /\ WriteLock(t, "inc_add")
    /\ UNCHANGED <<ranks, ranks_file, search, catVars, initVars, schedVars, histVars>>

\* *count += amount.  With overflow checks (a debug build) a sum that does
\* not fit panics: the thread unwinds with the write guard, which poisons
\* the lock; without them (a release build) the sum wraps.
IncAdd(t, overflow_checks) ==
    /\ thr[t].pc = "inc_add"
    /\ IF overflow_checks /\ AddOverflows(Count(ranks, thr[t].emoji), thr[t].amount)
       THEN /\ data_writer' = Poisoned
            /\ thr' = [thr EXCEPT ![t].pc = "panicked"]
            /\ UNCHANGED ranks
       ELSE /\ ranks' = AddUsage(ranks, thr[t].emoji, thr[t].amount)
            /\ data_writer' = NoThread
            /\ thr' = [u \in Threads |->
                         IF u = t THEN [thr[u] EXCEPT !.pc = "sw_pending"]
                         ELSE IF thr[u].pc = "rs_write" THEN [thr[u] EXCEPT !.raced = TRUE]
                         ELSE thr[u]]
    /\ UNCHANGED <<ranks_file, search, last_return, catVars, initVars, schedVars,
                   histVars>>

(***************************************************************************)
(* remove_emoji_rank(emoji)                                                *)
(***************************************************************************)
RemoveEmojiRank(t, e) ==
    /\ thr[t].pc = "idle"
    /\ ncalls < MaxCalls
    /\ thr' = [thr EXCEPT ![t] = [IdleThread EXCEPT !.pc = "rm_lock",
                                     !.op = "remove_emoji_rank", !.emoji = e,
                                     !.late = AfterFailedWrite]]
    /\ ncalls' = ncalls + 1
    /\ ops_seen' = ops_seen \cup {"remove_emoji_rank"}
    /\ UNCHANGED <<ranks, data_writer, ranks_file, search, last_return, expected,
                   nwrites, write_failed, in_window, stamped, catVars, initVars,
                   schedVars>>

RmLock(t) ==
    /\ thr[t].pc = "rm_lock"
    /\ WriteLock(t, "rm_remove")
    /\ UNCHANGED <<ranks, ranks_file, search, catVars, initVars, schedVars, histVars>>

RmRemove(t) ==
    /\ thr[t].pc = "rm_remove"
    /\ ranks' = Remove(ranks, thr[t].emoji)
    /\ data_writer' = NoThread
    /\ thr' = [thr EXCEPT ![t].pc = "sw_pending"]
    /\ UNCHANGED <<ranks_file, search, last_return, catVars, initVars, schedVars,
                   histVars>>

(***************************************************************************)
(* schedule_write: the caller's part.                                      *)
(***************************************************************************)
SwPending(t) ==
    /\ thr[t].pc = "sw_pending"
    /\ pending_writes' = TRUE
    /\ thr' = [thr EXCEPT ![t].pc = "sw_stamp"]
    /\ UNCHANGED <<ranks, data_writer, ranks_file, search, last_return,
                   last_write_time, write_worker_active, worker, catVars, initVars,
                   histVars>>

SwStamp(t) ==
    /\ thr[t].pc = "sw_stamp"
    /\ last_write_time' = 0
    /\ in_window' = (in_window /\ (~stamped \/ last_write_time < write_delay))
    /\ stamped' = TRUE
    /\ thr' = [thr EXCEPT ![t].pc = "sw_cas"]
    /\ UNCHANGED <<ranks, data_writer, ranks_file, search, last_return,
                   pending_writes, write_worker_active, worker, catVars, initVars,
                   ncalls, ops_seen, expected, nwrites, write_failed>>

\* a slip: the gate lets every caller through
CompareExchangeAlways(flag) == TRUE

\* compare_exchange(false, true): Ok exactly when the flag holds false
CompareExchangeOk(flag) == flag = FALSE

FreeSlots == {w \in WorkerIds : worker[w].pc = "none"}
FirstFreeSlot == CHOOSE w \in FreeSlots : \A v \in FreeSlots : w <= v

SwCas(t) ==
    /\ thr[t].pc = "sw_cas"
    /\ IF CompareExchangeOk(write_worker_active)
       THEN /\ FreeSlots # {}
            /\ write_worker_active' = TRUE
            /\ worker' = [worker EXCEPT ![FirstFreeSlot] =
                             [NoWorker EXCEPT !.pc = "read_pending"]]
       ELSE UNCHANGED <<write_worker_active, worker>>
    /\ Return(t, "Ok")
    /\ UNCHANGED <<ranks, data_writer, ranks_file, search, pending_writes,
                   last_write_time, catVars, initVars, histVars>>

(***************************************************************************)
(* schedule_write: the spawned thread.                                     *)
(***************************************************************************)
\* a slip: the worker writes without waiting for the quiet period
QuietPeriodSkipped(elapsed) == TRUE

\* a slip: the worker never finds the quiet period over
QuietPeriodNeverOver(elapsed) == FALSE

\* the negation of `elapsed < write_delay`
QuietPeriodOver(elapsed) == ~(elapsed < write_delay)

WReadPending(w) ==
    /\ worker[w].pc = "read_pending"
    /\ worker' = [worker EXCEPT ![w].pc = "read_elapsed", ![w].p = pending_writes]
    /\ UNCHANGED <<ranks, data_writer, ranks_file, thr, search, last_return,
                   pending_writes, last_write_time, write_worker_active, catVars,
                   initVars, histVars>>

WReadElapsed(w) ==
    /\ worker[w].pc = "read_elapsed"
    /\ worker' = [worker EXCEPT ![w] =
          IF ~worker[w].p THEN [NoWorker EXCEPT !.pc = "exit_idle"]
          ELSE IF ~QuietPeriodOver(last_write_time)
          THEN [NoWorker EXCEPT !.pc = "sleep",
                                !.remaining = write_delay - last_write_time]
          ELSE [NoWorker EXCEPT !.pc = "snapshot"]]
    /\ UNCHANGED <<ranks, data_writer, ranks_file, thr, search, last_return,
                   pending_writes, last_write_time, write_worker_active, catVars,
                   initVars, histVars>>

WExitIdle(w) ==
    /\ worker[w].pc = "exit_idle"
    /\ write_worker_active' = FALSE
    /\ worker' = [worker EXCEPT ![w] = NoWorker]
    /\ UNCHANGED <<ranks, data_writer, ranks_file, thr, search, last_return,
                   pending_writes, last_write_time, catVars, initVars, histVars>>

WWake(w) ==
    /\ worker[w].pc = "sleep"
    /\ worker[w].remaining = 0
    /\ worker' = [worker EXCEPT ![w] = [NoWorker EXCEPT !.pc = "read_pending"]]
    /\ UNCHANGED <<ranks, data_writer, ranks_file, thr, search, last_return,
                   pending_writes, last_write_time, write_worker_active, catVars,
                   initVars, histVars>>

\* match data.read(): Ok gives the clone of the ledger, Err (poisoned) ends
\* the activation without a write
WSnapshot(w) ==
    /\ worker[w].pc = "snapshot"
    /\ IF data_writer = Poisoned
       THEN worker' = [worker EXCEPT ![w].pc = "finish"]
       ELSE /\ DataLockFree
            /\ worker' = [worker EXCEPT ![w].pc = "unlock", ![w].ranks_data = ranks]
    /\ UNCHANGED <<ranks, data_writer, ranks_file, thr, search, last_return,
                   pending_writes, last_write_time, write_worker_active, catVars,
                   initVars, histVars>>

\* the end of the match: the read guard is dropped
WUnlock(w) ==
    /\ worker[w].pc = "unlock"
    /\ worker' = [worker EXCEPT ![w].pc = "write"]
    /\ UNCHANGED <<ranks, data_writer, ranks_file, thr, search, last_return,
                   pending_writes, last_write_time, write_worker_active, catVars,
                   initVars, histVars>>

\* fs::write: the file holds the content, or the call fails and the file is as
\* it was
FsWrite(file, content, outcome) == IF outcome = "ok" THEN JsonFile(content) ELSE file

WriteOutcomes == {"ok", "err"}

WWrite(w, outcome) ==
    /\ worker[w].pc = "write"
    /\ ranks_file' = FsWrite(ranks_file, ToJson(worker[w].ranks_data), outcome)
    /\ IF outcome = "ok"
       THEN /\ worker' = [worker EXCEPT ![w] = [NoWorker EXCEPT !.pc = "clear_pending"]]
            /\ nwrites' = nwrites + 1
            /\ UNCHANGED write_failed
       ELSE /\ worker' = [worker EXCEPT ![w] = [NoWorker EXCEPT !.pc = "finish"]]
            /\ write_failed' = TRUE
            /\ UNCHANGED nwrites
    /\ UNCHANGED <<ranks, data_writer, thr, search, last_return, pending_writes,
                   last_write_time, write_worker_active, catVars, initVars, ncalls,
                   ops_seen, expected, in_window, stamped>>

WClearPending(w) ==
    /\ worker[w].pc = "clear_pending"
    /\ pending_writes' = FALSE
    /\ worker' = [worker EXCEPT ![w].pc = "finish"]
    /\ UNCHANGED <<ranks, data_writer, ranks_file, thr, search, last_return,
                   last_write_time, write_worker_active, catVars, initVars, histVars>>

WFinish(w) ==
    /\ worker[w].pc = "finish"
    /\ write_worker_active' = FALSE
    /\ worker' = [worker EXCEPT ![w] = NoWorker]
    /\ UNCHANGED <<ranks, data_writer, ranks_file, thr, search, last_return,
                   pending_writes, last_write_time, catVars, initVars, histVars>>

(***************************************************************************)
(* reset_ranks()                                                           *)
(***************************************************************************)
\* a slip: the ledger as it is now is serialized, not a fresh empty map
ResetDocumentOfLedger(r) == ToJson(r)

\* the document reset_ranks writes: a new, empty HashMap
ResetDocument(r) == ToJson(EmptyLedger)

ResetRanks(t) ==
    /\ thr[t].pc = "idle"
    /\ ncalls < MaxCalls
    /\ thr' = [thr EXCEPT ![t] = [IdleThread EXCEPT !.pc = "rs_lock",
                                     !.op = "reset_ranks"]]
    /\ ncalls' = ncalls + 1
    /\ ops_seen' = ops_seen \cup {"reset_ranks"}
    /\ UNCHANGED <<ranks, data_writer, ranks_file, search, last_return, expected,
                   nwrites, write_failed, in_window, stamped, catVars, initVars,
                   schedVars>>

RsLock(t) ==
    /\ thr[t].pc = "rs_lock"
    /\ WriteLock(t, "rs_clear")
    /\ UNCHANGED <<ranks, ranks_file, search, catVars, initVars, schedVars, histVars>>

RsClear(t) ==
    /\ thr[t].pc = "rs_clear"
    /\ ranks' = EmptyLedger
    /\ data_writer' = NoThread
    /\ thr' = [thr EXCEPT ![t].pc = "rs_write", ![t].raced = FALSE]
    /\ UNCHANGED <<ranks_file, search, last_return, catVars, initVars, schedVars,
                   histVars>>

RsWrite(t, outcome) ==
    /\ thr[t].pc = "rs_write"
    /\ ranks_file' = FsWrite(ranks_file, ResetDocument(ranks), outcome)
    /\ write_failed' = (write_failed \/ outcome # "ok")
    /\ Return(t, IF outcome = "ok" THEN "Ok" ELSE "Err")
    /\ UNCHANGED <<ranks, data_writer, search, catVars, initVars, schedVars, ncalls,
                   ops_seen, expected, nwrites, in_window, stamped>>

(***************************************************************************)
(* The passage of one second.                                              *)
(***************************************************************************)
Tick ==
    /\ last_write_time' = Min(last_write_time + 1, write_delay)
    /\ worker' = [w \in WorkerIds |->
                    IF worker[w].remaining > 0
                    THEN [worker[w] EXCEPT !.remaining = @ - 1]
                    ELSE worker[w]]
    /\ UNCHANGED <<ranks, data_writer, ranks_file, thr, search, last_return,
                   pending_writes, write_worker_active, catVars, initVars, histVars>>

(***************************************************************************)
(* load_ranks: what the ranks file gives.  A missing file gives the empty  *)
(* map, and so does a file that does not parse (unwrap_or_default).        *)
(***************************************************************************)
ParseRanks(file) == IF file.kind = "json" THEN FromJson(file.doc) ELSE EmptyLedger

(***************************************************************************)
(* load_emojis: what the catalog document gives.  The document is a JSON   *)
(* array of objects; an object without "emoji" fails the whole parse, an   *)
(* absent optional field is None.                                          *)
(***************************************************************************)
Field(o, name) == IF name \in DOMAIN o THEN Some(o[name]) ELSE None

ParseEmojis(file) ==
    IF file.kind = "json" /\ \A i \in 1..Len(file.doc) : "emoji" \in DOMAIN file.doc[i]
    THEN Some([i \in 1..Len(file.doc) |->
                 EmojiData(file.doc[i].emoji, Field(file.doc[i], "description"),
                           Field(file.doc[i], "aliases"), Field(file.doc[i], "tags"))])
    ELSE None

smile == <<115, 109, 105, 108, 101>>
happy == <<104, 97, 112, 112, 121>>
calendar == <<99, 97, 108, 101, 110, 100, 97, 114>>
schedule == <<115, 99, 104, 101, 100, 117, 108, 101>>

\* include_str!("emoji.json"): the catalog compiled into the binary
EmbeddedDocument ==
    << [emoji |-> GlyphA, tags |-> <<smile, happy>>],
       [emoji |-> GlyphB, aliases |-> <<calendar>>, tags |-> <<schedule>>] >>
EmbeddedFile == JsonFile(EmbeddedDocument)

\* fs::read_to_string(&self.emoji_file_path), falling back to the embedded data
ReadEmojiFile(file, outcome) ==
    IF file.kind = "missing" \/ outcome # "ok" THEN EmbeddedFile ELSE file

NoSearch == [op |-> "none", query |-> <<>>, items |-> <<>>, max_top |-> 0,
             result |-> "none", out |-> <<>>]
BuilderNames == {"load_emojis", "load_ranks", "build_keywords", "build_index"}
ReadOutcomes == {"ok", "err"}

(***************************************************************************)
(* initialize() and the four builders.  A caller's stack holds the places  *)
(* to resume at when the builder it called returns Ok.                     *)
(***************************************************************************)
\* a slip: the lock is taken without waiting for its holder
InitLockIgnored == TRUE

InitLockFree == init_lock = NoThread

\* a slip: the result of a step is dropped instead of being propagated
TryIgnored(res) == FALSE

\* the ? operator: an Err leaves the calling function at once
Try(res) == res = "Err"

EntryOf(b) ==
    CASE b = "load_emojis" -> "le_check"
      [] b = "load_ranks" -> "lr_check"
      [] b = "build_keywords" -> "bk_check"
      [] b = "build_index" -> "bi_check"

Initialize(t) ==
    /\ thr[t].pc = "idle"
    /\ ncalls < MaxCalls
    /\ thr' = [thr EXCEPT ![t] = [IdleThread EXCEPT !.pc = "init_check",
                                     !.op = "initialize"]]
    /\ ncalls' = ncalls + 1
    /\ ops_seen' = ops_seen \cup {"initialize"}
    /\ UNCHANGED <<ranks, data_writer, ranks_file, search, last_return, expected,
                   nwrites, write_failed, in_window, stamped, catVars, initVars,
                   schedVars>>

CallBuilder(t, b) ==
    /\ thr[t].pc = "idle"
    /\ ncalls < MaxCalls
    /\ thr' = [thr EXCEPT ![t] = [IdleThread EXCEPT !.pc = EntryOf(b), !.op = b]]
    /\ ncalls' = ncalls + 1
    /\ ops_seen' = ops_seen \cup {b}
    /\ UNCHANGED <<ranks, data_writer, ranks_file, search, last_return, expected,
                   nwrites, write_failed, in_window, stamped, catVars, initVars,
                   schedVars>>

\* leaving initialize: the guard is dropped and the result is returned
InitReturn(t, res) ==
    /\ init_lock' = IF init_lock = t THEN NoThread ELSE init_lock
    /\ init_failures' = IF thr[t].op = "initialize" /\ res = "Err"
                        THEN init_failures + 1 ELSE init_failures
    /\ Return(t, res)

\* a builder returns res to its caller
BuilderReturn(t, res) ==
    IF thr[t].stack = <<>> \/ Try(res)
    THEN InitReturn(t, res)
    ELSE /\ thr' = [thr EXCEPT ![t].pc = Head(thr[t].stack),
                               ![t].stack = Tail(thr[t].stack),
                               ![t].content = <<>>]
         /\ UNCHANGED <<init_lock, init_failures, last_return>>

InitCheck(t) ==
    /\ thr[t].pc = "init_check"
    /\ IF init_success
       THEN InitReturn(t, "Ok")
       ELSE /\ thr' = [thr EXCEPT ![t].pc = "init_lock"]
            /\ UNCHANGED <<init_lock, init_failures, last_return>>
    /\ UNCHANGED <<ranks, data_writer, ranks_file, search, init_success, emoji_file,
                   ranks_loaded, stores, catVars, schedVars, histVars>>

InitLock(t) ==
    /\ thr[t].pc = "init_lock"
    /\ InitLockFree
    /\ init_lock' = t
    /\ thr' = [thr EXCEPT ![t].pc = "init_recheck"]
    /\ UNCHANGED <<ranks, data_writer, ranks_file, search, last_return, init_success,
                   emoji_file, ranks_loaded, stores, init_failures, catVars,
                   schedVars, histVars>>

InitRecheck(t) ==
    /\ thr[t].pc = "init_recheck"
    /\ IF init_success
       THEN InitReturn(t, "Ok")
       ELSE /\ thr' = [thr EXCEPT ![t].pc = "le_check",
                                  ![t].stack = <<"init_load_ranks">>]
            /\ UNCHANGED <<init_lock, init_failures, last_return>>
    /\ UNCHANGED <<ranks, data_writer, ranks_file, search, init_success, emoji_file,
                   ranks_loaded, stores, catVars, schedVars, histVars>>

\* initialize moves on to its next step: the call of the next builder
InitStep(t) ==
    /\ thr[t].pc \in {"init_load_ranks", "init_build_keywords", "init_build_index"}
    /\ thr' = [thr EXCEPT
                 ![t].pc = CASE thr[t].pc = "init_load_ranks" -> "lr_check"
                             [] thr[t].pc = "init_build_keywords" -> "bk_check"
                             [] thr[t].pc = "init_build_index" -> "bi_check",
                 ![t].stack = CASE thr[t].pc = "init_load_ranks" -> <<"init_build_keywords">>
                                [] thr[t].pc = "init_build_keywords" -> <<"init_build_index">>
                                [] thr[t].pc = "init_build_index" -> <<"init_finish">>]
    /\ UNCHANGED <<ranks, data_writer, ranks_file, search, last_return, catVars,
                   initVars, schedVars, histVars>>

InitFinish(t) ==
    /\ thr[t].pc = "init_finish"
    /\ init_success' = TRUE
    /\ InitReturn(t, "Ok")
    /\ UNCHANGED <<ranks, data_writer, ranks_file, search, emoji_file, ranks_loaded,
                   stores, catVars, schedVars, histVars>>

Stored(b) == [stores EXCEPT ![b] = @ + 1]

\* a slip: the builder does not look at its flag
AlreadyDoneIgnored(flag) == FALSE

\* if data.<flag> { return Ok(()) }: the check every builder starts with
AlreadyDone(flag) == flag

LeCheck(t) ==
    /\ thr[t].pc = "le_check"
    /\ DataLockFree
    /\ IF AlreadyDone(emojis_loaded)
       THEN BuilderReturn(t, "Ok")
       ELSE /\ thr' = [thr EXCEPT ![t].pc = "le_read"]
            /\ UNCHANGED <<init_lock, init_failures, last_return>>
    /\ UNCHANGED <<ranks, data_writer, ranks_file, search, init_success, emoji_file,
                   ranks_loaded, stores, catVars, schedVars, histVars>>

LeRead(t, outcome) ==
    /\ thr[t].pc = "le_read"
    /\ LET emoji_data == ParseEmojis(ReadEmojiFile(emoji_file, outcome))
       IN  IF emoji_data = None
           THEN BuilderReturn(t, "Err")
           ELSE /\ thr' = [thr EXCEPT ![t].pc = "le_store",
                                      ![t].content = emoji_data[1]]
                /\ UNCHANGED <<init_lock, init_failures, last_return>>
    /\ UNCHANGED <<ranks, data_writer, ranks_file, search, init_success, emoji_file,
                   ranks_loaded, stores, catVars, schedVars, histVars>>

LeStore(t) ==
    /\ thr[t].pc = "le_store"
    /\ DataLockFree
    /\ emojis' = thr[t].content
    /\ emojis_loaded' = TRUE
    /\ stores' = Stored("load_emojis")
    /\ BuilderReturn(t, "Ok")
    /\ UNCHANGED <<ranks, data_writer, ranks_file, search, init_success, emoji_file,
                   ranks_loaded, keywords, index, keywords_built, index_built,
                   schedVars, histVars>>

LrCheck(t) ==
    /\ thr[t].pc = "lr_check"
    /\ DataLockFree
    /\ IF AlreadyDone(ranks_loaded)
       THEN BuilderReturn(t, "Ok")
       ELSE /\ thr' = [thr EXCEPT ![t].pc = "lr_read"]
            /\ UNCHANGED <<init_lock, init_failures, last_return>>
    /\ UNCHANGED <<ranks, data_writer, ranks_file, search, init_success, emoji_file,
                   ranks_loaded, stores, catVars, schedVars, histVars>>

LrRead(t, outcome) ==
    /\ thr[t].pc = "lr_read"
    /\ IF ranks_file.kind # "missing" /\ outcome # "ok"
       THEN BuilderReturn(t, "Err")
       ELSE /\ thr' = [thr EXCEPT ![t].pc = "lr_store",
                                  ![t].content = ParseRanks(ranks_file)]
            /\ UNCHANGED <<init_lock, init_failures, last_return>>
    /\ UNCHANGED <<ranks, data_writer, ranks_file, search, init_success, emoji_file,
                   ranks_loaded, stores, catVars, schedVars, histVars>>

LrStore(t) ==
    /\ thr[t].pc = "lr_store"
    /\ DataLockFree
    /\ ranks' = thr[t].content
    /\ ranks_loaded' = TRUE
    /\ stores' = Stored("load_ranks")
    /\ BuilderReturn(t, "Ok")
    /\ UNCHANGED <<data_writer, ranks_file, search, init_success, emoji_file,
                   catVars, schedVars, histVars>>

BkCheck(t) ==
    /\ thr[t].pc = "bk_check"
    /\ DataLockFree
    /\ IF AlreadyDone(keywords_built)
       THEN BuilderReturn(t, "Ok")
       ELSE /\ thr' = [thr EXCEPT ![t].pc = "le_check",
                                  ![t].stack = <<"bk_build">> \o @]
            /\ UNCHANGED <<init_lock, init_failures, last_return>>
    /\ UNCHANGED <<ranks, data_writer, ranks_file, search, init_success, emoji_file,
                   ranks_loaded, stores, catVars, schedVars, histVars>>

BkBuild(t) ==
    /\ thr[t].pc = "bk_build"
    /\ DataLockFree
    /\ thr' = [thr EXCEPT ![t].pc = "bk_store",
                          ![t].content = BuildKeywordsMap(emojis)]
    /\ UNCHANGED <<ranks, data_writer, ranks_file, search, last_return, catVars,
                   initVars, schedVars, histVars>>

BkStore(t) ==
    /\ thr[t].pc = "bk_store"
    /\ DataLockFree
    /\ keywords' = thr[t].content
    /\ keywords_built' = TRUE
    /\ stores' = Stored("build_keywords")
    /\ BuilderReturn(t, "Ok")
    /\ UNCHANGED <<ranks, data_writer, ranks_file, search, init_success, emoji_file,
                   ranks_loaded, emojis, index, emojis_loaded, index_built,
                   schedVars, histVars>>

BiCheck(t) ==
    /\ thr[t].pc = "bi_check"
    /\ DataLockFree
    /\ IF AlreadyDone(index_built)
       THEN BuilderReturn(t, "Ok")
       ELSE /\ thr' = [thr EXCEPT ![t].pc = "bi_build"]
            /\ UNCHANGED <<init_lock, init_failures, last_return>>
    /\ UNCHANGED <<ranks, data_writer, ranks_file, search, init_success, emoji_file,
                   ranks_loaded, stores, catVars, schedVars, histVars>>

BiBuild(t) ==
    /\ thr[t].pc = "bi_build"
    /\ DataLockFree
    /\ thr' = [thr EXCEPT ![t].pc = "bi_store",
                          ![t].content = BuildIndexMap(emojis, keywords)]
    /\ UNCHANGED <<ranks, data_writer, ranks_file, search, last_return, catVars,
                   initVars, schedVars, histVars>>

BiStore(t) ==
    /\ thr[t].pc = "bi_store"
    /\ DataLockFree
    /\ index' = thr[t].content
    /\ index_built' = TRUE
    /\ stores' = Stored("build_index")
    /\ BuilderReturn(t, "Ok")
    /\ UNCHANGED <<ranks, data_writer, ranks_file, search, init_success, emoji_file,
                   ranks_loaded, emojis, keywords, emojis_loaded, keywords_built,
                   schedVars, histVars>>

(***************************************************************************)
(* Spec: an initialized engine whose ledger is used by concurrent callers  *)
(* of increment_usage, remove_emoji_rank and reset_ranks, and the          *)
(* write-back worker they spawn.                                           *)
(***************************************************************************)
InitRanksFile == JsonFile({<<GlyphA, 1>>})

\* the state initialize leaves behind when every step has succeeded
Initialized ==
    /\ emojis = ParseEmojis(ReadEmojiFile(emoji_file, "ok"))[1]
    /\ keywords = BuildKeywordsMap(emojis)
    /\ index = BuildIndexMap(emojis, keywords)
    /\ emojis_loaded = TRUE
    /\ ranks_loaded = TRUE
    /\ keywords_built = TRUE
    /\ index_built = TRUE
    /\ init_lock = NoThread
    /\ init_success = TRUE
    /\ stores = [b \in BuilderNames |-> 1]
    /\ init_failures = 0

InitScheduler ==
    /\ data_writer = NoThread
    /\ pending_writes = FALSE
    /\ last_write_time = 0
    /\ write_worker_active = FALSE
    /\ thr = [t \in Threads |-> IdleThread]
    /\ worker = [w \in WorkerIds |-> NoWorker]
    /\ ncalls = 0
    /\ ops_seen = {}
    /\ nwrites = 0
    /\ write_failed = FALSE
    /\ in_window = TRUE
    /\ stamped = FALSE
    /\ last_return = NoReturn

Init ==
    /\ InitScheduler
    /\ ranks_file = InitRanksFile
    /\ ranks = ParseRanks(ranks_file)
    /\ expected = ranks
    /\ emoji_file = MissingEmojiFile
    /\ Initialized
    /\ search = NoSearch

Amounts == {None} \cup {Some(a) : a \in 1..MaxAmount}

Mutator(t) ==
    \/ \E e \in Glyphs, amt \in Amounts : IncrementUsage(t, e, amt)
    \/ IncLock(t)
    \/ \E overflow_checks \in BOOLEAN : IncAdd(t, overflow_checks)
    \/ \E e \in Glyphs : RemoveEmojiRank(t, e)
    \/ RmLock(t)
    \/ RmRemove(t)
    \/ ResetRanks(t)
    \/ RsLock(t)
    \/ RsClear(t)
    \/ \E outcome \in WriteOutcomes : RsWrite(t, outcome)
    \/ SwPending(t)
    \/ SwStamp(t)
    \/ SwCas(t)

Worker(w) ==
    \/ WReadPending(w)
    \/ WReadElapsed(w)
    \/ WExitIdle(w)
    \/ WWake(w)
    \/ WSnapshot(w)
    \/ WUnlock(w)
    \/ \E outcome \in WriteOutcomes : WWrite(w, outcome)
    \/ WClearPending(w)
    \/ WFinish(w)

Next ==
    \/ \E t \in Threads : Mutator(t)
    \/ \E w \in WorkerIds : Worker(w)
    \/ Tick

Spec == Init /\ [][Next]_vars

(***************************************************************************)
(* SpecLive: the same engine with at most MaxLiveCalls calls, under fair   *)
(* scheduling.  A thread inside a call takes its next step, a worker that  *)
(* was spawned runs, and time passes; nobody is obliged to call.           *)
(***************************************************************************)
MaxLiveCalls == 2

\* the steps of a call that has been entered
MutatorStep(t) ==
    \/ IncLock(t)
    \/ \E overflow_checks \in BOOLEAN : IncAdd(t, overflow_checks)
    \/ RmLock(t)
    \/ RmRemove(t)
    \/ RsLock(t)
    \/ RsClear(t)
    \/ \E outcome \in WriteOutcomes : RsWrite(t, outcome)
    \/ SwPending(t)
    \/ SwStamp(t)
    \/ SwCas(t)

\* a call is entered while fewer than MaxLiveCalls calls have been made
LiveCall(t) ==
    /\ ncalls < MaxLiveCalls
    /\ \/ \E e \in Glyphs, amt \in Amounts : IncrementUsage(t, e, amt)
       \/ \E e \in Glyphs : RemoveEmojiRank(t, e)
       \/ ResetRanks(t)

NextLive ==
    \/ \E t \in Threads : LiveCall(t)
    \/ \E t \in Threads : MutatorStep(t)
    \/ \E w \in WorkerIds : Worker(w)
    \/ Tick

Fairness ==
    /\ \A t \in Threads : WF_vars(MutatorStep(t))
    /\ \A w \in WorkerIds : WF_vars(Worker(w))
    /\ WF_vars(Tick)

SpecLive == Init /\ [][NextLive]_vars /\ Fairness

(***************************************************************************)
(* SpecOverflow: the same engine over a ledger file that holds a counter   *)
(* one below u32::MAX.                                                     *)
(***************************************************************************)
OverflowRanksFile == JsonFile({<<GlyphA, U32_MAX - 1>>})

InitOverflow ==
    /\ InitScheduler
    /\ ranks_file = OverflowRanksFile
    /\ ranks = ParseRanks(ranks_file)
    /\ expected = EmptyLedger
    /\ emoji_file = MissingEmojiFile
    /\ Initialized
    /\ search = NoSearch

SpecOverflow == InitOverflow /\ [][Next]_vars

(***************************************************************************)
(* SpecInit: a manager as EmojiManager::new leaves it, and callers of      *)
(* initialize and of the four public builders.                             *)
(***************************************************************************)
\* a catalog document with an object that has no "emoji"
BrokenDocument == << [emoji |-> GlyphA], [description |-> smile] >>

EmojiFiles == {MissingEmojiFile, GarbageEmojiFile, JsonFile(BrokenDocument),
               JsonFile(<< [emoji |-> GlyphB, description |-> calendar] >>)}
RanksFiles == {MissingFile, GarbageFile, InitRanksFile}

InitNew ==
    /\ InitScheduler
    /\ emoji_file \in EmojiFiles
    /\ ranks_file \in RanksFiles
    /\ emojis = <<>>
    /\ ranks = EmptyLedger
    /\ expected = EmptyLedger
    /\ keywords = EmptyLedger
    /\ index = EmptyLedger
    /\ emojis_loaded = FALSE
    /\ ranks_loaded = FALSE
    /\ keywords_built = FALSE
    /\ index_built = FALSE
    /\ init_lock = NoThread
    /\ init_success = FALSE
    /\ stores = [b \in BuilderNames |-> 0]
    /\ init_failures = 0
    /\ search = NoSearch

Initializer(t) ==
    \/ Initialize(t)
    \/ \E b \in BuilderNames : CallBuilder(t, b)
    \/ InitCheck(t)
    \/ InitLock(t)
    \/ InitRecheck(t)
    \/ InitStep(t)
    \/ InitFinish(t)
    \/ LeCheck(t)
    \/ \E outcome \in ReadOutcomes : LeRead(t, outcome)
    \/ LeStore(t)
    \/ LrCheck(t)
    \/ \E outcome \in ReadOutcomes : LrRead(t, outcome)
    \/ LrStore(t)
    \/ BkCheck(t)
    \/ BkBuild(t)
    \/ BkStore(t)
    \/ BiCheck(t)
    \/ BiBuild(t)
    \/ BiStore(t)

NextInit == \E t \in Threads : Initializer(t)

SpecInit == InitNew /\ [][NextInit]_vars

(***************************************************************************)
(* Claims about the write-back scheduler and the mutation API (Spec).      *)
(***************************************************************************)
ActiveWorkers == {w \in WorkerIds : worker[w].pc # "none"}
AllReturned == \A t \in Threads : thr[t].pc = "idle"
Quiescent == AllReturned /\ ActiveWorkers = {}
OnlyIncrements == ops_seen \subseteq {"increment_usage"}
InSync == ranks_file = JsonFile(ToJson(ranks))

\* C1: at every moment at most one write-back worker is active, a worker is
\* active only while write_worker_active is true, and a schedule_write that
\* finds write_worker_active true returns without spawning a worker.
C1_SingleWriter ==
    [][/\ Cardinality(ActiveWorkers') <= 1
       /\ ActiveWorkers' # {} => write_worker_active'
       /\ \A t \in Threads :
            (thr[t].pc = "sw_cas" /\ thr'[t].pc = "idle" /\ write_worker_active)
                => (worker' = worker /\ write_worker_active')]_vars

\* Two mutations have returned while the worker spawned by the first is still
\* active (no write has been made yet): the second found the flag true.
C1_Witness ==
    /\ AllReturned
    /\ ncalls >= 2
    /\ "reset_ranks" \notin ops_seen
    /\ nwrites = 0 /\ ~write_failed
    /\ Cardinality(ActiveWorkers) = 1
    /\ pending_writes

\* C2 (as claimed): once the mutators have returned and the worker is idle
\* again, with no failed write and no reset, the durable document equals the
\* in-memory ledger.  Nothing but a further mutation can change such a state.
C2_EventualDurability ==
    (Quiescent /\ ~write_failed /\ "reset_ranks" \notin ops_seen) => InSync

\* C3: increment_usage calls that start from Idle and of which each sets
\* last_write_time less than write_delay after the previous call did (the time
\* of a call is the time of its stamp) cause at most one durable write; once
\* they have returned and the worker is idle again there has been exactly one,
\* and it holds the counts after all the increments.
Stamping(t) == thr[t].pc \in {"inc_lock", "inc_add", "sw_pending", "sw_stamp"}

C3_DebounceCoalescing ==
    (OnlyIncrements /\ in_window /\ ~write_failed) =>
        /\ (\A t \in Threads : ~Stamping(t)) => nwrites <= 1
        /\ (Quiescent /\ ncalls > 0) => (nwrites = 1 /\ InSync /\ ranks = expected)

C3_Witness ==
    /\ OnlyIncrements /\ in_window /\ ~write_failed
    /\ Quiescent
    /\ ncalls = MaxCalls
    /\ nwrites = 1

C5_NoLostIncrement ==
    (AllReturned /\ OnlyIncrements) =>
        \A e \in Glyphs : Count(ranks, e) = Count(expected, e)

\* MaxCalls increments from two threads have returned, at least two of them
\* for GlyphA.
C5_Witness ==
    /\ AllReturned /\ OnlyIncrements
    /\ ncalls >= 2
    /\ Count(ranks, GlyphA) >= Count(ParseRanks(InitRanksFile), GlyphA) + 2
    /\ Count(ranks, GlyphB) >= 1

(***************************************************************************)
(* SpecSearch: an initialized engine that answers get_emojis calls, for a  *)
(* range of catalogs, ledgers, queries and pin counts.  Since the order in *)
(* which a HashMap iterates is not fixed, a call is made for every order.  *)
(* A call reads the engine's state and writes none of it, so a behaviour   *)
(* holds one call, from each state the engine is started in.               *)
(***************************************************************************)
MaxTop == 2
TopNs == 0..MaxTop \cup {DEFAULT_MAX_TOP_EMOJIS}

GlyphC == <<128053>>
GlyphX == <<128584>>

\* a catalog in which the two ranked ids come after an unranked one
PinDocument ==
    << [emoji |-> GlyphC, description |-> <<83, 109, 95, 99>>],
       [emoji |-> GlyphA, tags |-> <<smile, happy>>],
       [emoji |-> GlyphB, description |-> <<84, 101, 97, 114, 45, 79, 102, 102>>,
        aliases |-> <<calendar>>, tags |-> <<schedule, <<233>>>>] >>

\* a catalog of more than MAX_SEARCH_RESULTS items, without metadata
BigDocument == [i \in 1..(MAX_SEARCH_RESULTS + 1) |-> [emoji |-> <<983040 + i>>]]

\* a one-byte id with a description longer than MAX_PREFIX_LENGTH, and an id
\* that ends with the variation selector
GlyphStar == <<42>>
GlyphHeart == <<10084, VARIATION_SELECTOR>>
heart == <<104, 101, 97, 114, 116>>
GrinningDescription ==
    <<71, 114, 105, 110, 110, 105, 110, 103, 95, 70, 97, 99, 101, 32, 119, 105, 116,
      104, 32, 98, 105, 103, 32, 101, 121, 101, 115>>

MarkDocument ==
    << [emoji |-> GlyphStar, description |-> GrinningDescription],
       [emoji |-> GlyphHeart, aliases |-> <<heart>>, tags |-> <<smile>>] >>

\* an item whose aliases and tags repeat the description and each other in
\* other spellings, an item without metadata, and an item whose only keyword
\* starts with an underscore
SmileFace == <<83, 109, 105, 108, 101, 95, 70, 97, 99, 101>>
SMILE_FACE == <<83, 77, 73, 76, 69, 95, 70, 65, 67, 69>>
Happy == <<72, 97, 112, 112, 121>>
hi == <<104, 105>>
a_b == <<97, 95, 98>>
_wave == <<95, 119, 97, 118, 101>>

KeysDocument ==
    << [emoji |-> GlyphC, description |-> SmileFace, aliases |-> <<SMILE_FACE, happy>>,
        tags |-> <<Happy, hi, a_b>>],
       [emoji |-> GlyphX],
       [emoji |-> GlyphA, aliases |-> <<_wave>>] >>

SearchCatalogs == {MissingEmojiFile, JsonFile(PinDocument), JsonFile(MarkDocument),
                   JsonFile(BigDocument), JsonFile(KeysDocument)}

SearchLedgers ==
    {MissingFile,
     JsonFile({<<GlyphA, 5>>, <<GlyphB, 3>>}),
     JsonFile({<<GlyphX, 7>>, <<GlyphA, 1>>}),
     JsonFile({<<GlyphA, 2>>, <<GlyphB, 2>>, <<GlyphC, 1>>}),
     JsonFile({<<GlyphHeart, 4>>, <<GlyphStar, 2>>})}

Queries ==
    { <<>>, <<32>>, <<115>>, <<115, 109>>, <<32, 67, 97, 108, 32>>, <<111, 102, 102>>,
      <<233>>, <<122, 122>>, GlyphA, GlyphB \o <<VARIATION_SELECTOR>>, GlyphX,
      GlyphStar, <<32>> \o GlyphHeart, <<10084>>, <<69, 121>>, <<101, 121, 101, 115>>,
      <<103, 114, 105, 110, 110, 105, 110, 103, 32, 102, 97, 99>>,
      <<103, 114, 105, 110, 110, 105, 110, 103, 32, 102, 97, 99, 101>>,
      <<32, 119, 97, 118, 101>>, <<97, 32, 98>>,
      <<115, 109, 105, 108, 101, 32, 102, 97, 99, 101>>,
      <<116, 101, 97, 114, 45, 111, 102, 102>>, KeywordNormalize(GrinningDescription) }

ItemLists ==
    { <<>>, <<GlyphC, GlyphA, GlyphB>>, <<GlyphB, GlyphA>>, <<GlyphC, GlyphA, GlyphC>>,
      <<GlyphX, GlyphC>> }

\* the orders in which ranks.iter() can yield the keys of the ledger
Orders(r) ==
    {o \in [1..Cardinality(DOMAIN r) -> DOMAIN r] :
        \A i, j \in DOMAIN o : o[i] = o[j] => i = j}

InitSearch ==
    /\ InitScheduler
    /\ emoji_file \in SearchCatalogs
    /\ Initialized
    /\ ranks_file \in SearchLedgers
    /\ ranks = ParseRanks(ranks_file)
    /\ expected = ranks
    /\ search = NoSearch

searchFrame == <<ranks, data_writer, ranks_file, thr, last_return, catVars, initVars,
                 schedVars, histVars>>

GetEmojis(filter_word, max_top_emojis, order) ==
    /\ search = NoSearch
    /\ search' = [op |-> "get_emojis", query |-> filter_word, items |-> <<>>,
                  max_top |-> max_top_emojis, result |-> "Ok",
                  out |-> get_emojis(filter_word, max_top_emojis, emojis, keywords,
                                     index, ranks, order)]
    /\ UNCHANGED searchFrame

\* the ids get_keywords is asked for
KeywordQueries ==
    { <<>>, GlyphA, GlyphB, GlyphC, GlyphX, GlyphStar, GlyphHeart, <<10084>>,
      GlyphB \o <<VARIATION_SELECTOR>> }

GetKeywords(emoji) ==
    /\ search = NoSearch
    /\ search' = [op |-> "get_keywords", query |-> emoji, items |-> <<>>,
                  max_top |-> 0, result |-> "Ok",
                  out |-> get_keywords(emoji, keywords)]
    /\ UNCHANGED searchFrame

OrderEmojisByUsage(list, max_top_emojis, order) ==
    /\ search = NoSearch
    /\ search' = [op |-> "order_emojis_by_usage", query |-> <<>>, items |-> list,
                  max_top |-> max_top_emojis, result |-> "none",
                  out |-> order_emojis_by_usage(list, max_top_emojis, ranks, order)]
    /\ UNCHANGED searchFrame

NextSearch ==
    \/ \E q \in Queries, n \in TopNs, o \in Orders(ranks) : GetEmojis(q, n, o)
    \/ \E l \in ItemLists, n \in TopNs, o \in Orders(ranks) : OrderEmojisByUsage(l, n, o)
    \/ \E e \in KeywordQueries : GetKeywords(e)

SpecSearch == InitSearch /\ [][NextSearch]_vars

(***************************************************************************)
(* Claims about initialize (SpecInit).                                     *)
(***************************************************************************)
OnlyInitialize == ops_seen \subseteq {"initialize"}
AllBuilt == emojis_loaded /\ ranks_loaded /\ keywords_built /\ index_built
Stepped(t) == thr'[t] # thr[t]
Returned(t) == thr[t].pc # "idle" /\ thr'[t].pc = "idle"
InInitialize(t) == thr[t].op = "initialize" \/ thr'[t].op = "initialize"
engineVars == <<emojis, ranks, keywords, index, emojis_loaded, ranks_loaded,
                keywords_built, index_built, init_success, stores, emoji_file,
                ranks_file, pending_writes, write_worker_active, worker>>

\* C6: initialize is one-shot and retryable.  init_success is set only when
\* all four steps have succeeded; an initialize call that returns Err leaves
\* init_success false and init_lock free, so a later call runs again; once
\* init_success is set, every step of an initialize call leaves the engine's
\* state as it is and the call returns Ok.
C6_InitializeOneShot ==
    [][/\ init_success' => AllBuilt'
       /\ \A t \in Threads :
            (InInitialize(t) /\ Returned(t) /\ last_return'.result = "Err")
                => (~init_success' /\ init_lock' # t)
       /\ AllReturned' => init_lock' = NoThread
       /\ \A t \in Threads :
            (InInitialize(t) /\ Stepped(t) /\ init_success)
                => /\ engineVars' = engineVars
                   /\ Returned(t) => last_return' = [op |-> "initialize", result |-> "Ok"]]_vars

\* an initialize call failed, a later one succeeded, and a third returned Ok
C6_Witness ==
    /\ OnlyInitialize
    /\ AllReturned
    /\ init_success
    /\ init_failures >= 1
    /\ ncalls = MaxCalls
    /\ last_return = [op |-> "initialize", result |-> "Ok"]
    /\ \A b \in BuilderNames : stores[b] = 1

InBuilders(t) == thr[t].pc \notin {"idle", "init_check", "init_lock"}

\* C7: when only initialize is called, by several threads at once, the calls
\* are serialized by init_lock (at most one caller is past the lock), each
\* of the four builders stores its result at most once in total, and every
\* call that returns after init_success was set returns Ok.
C7_InitializeSerialized ==
    [][OnlyInitialize' =>
         /\ Cardinality({t \in Threads : InBuilders(t)'}) <= 1
         /\ \A b \in BuilderNames : stores'[b] <= 1
         /\ \A t \in Threads :
              (Returned(t) /\ init_success) => last_return'.result = "Ok"]_vars

\* one caller has completed initialization while another was waiting for the lock
C7_Witness ==
    /\ OnlyInitialize
    /\ init_success
    /\ \A b \in BuilderNames : stores[b] = 1
    /\ \E t \in Threads : thr[t].pc = "init_recheck"

(***************************************************************************)
(* Claims about get_emojis and order_emojis_by_usage (SpecSearch).         *)
(***************************************************************************)
CatalogIds == {emojis[i].emoji : i \in 1..Len(emojis)}
Searched == search.op = "get_emojis"
Ordered == search.op = "order_emojis_by_usage"

\* C8 as stated: get_emojis(q, N) returns at most min(N, MAX_SEARCH_RESULTS)
\* items.
C8_SizeAtMostMinOfN ==
    Searched => Len(search.out) <= Min(search.max_top, MAX_SEARCH_RESULTS)

\* C8, amended: get_emojis(q, N) returns at most MAX_SEARCH_RESULTS items, for
\* every query q and every N; N is not a bound on the size of the result.
C8_SizeAtMostMax ==
    Searched => Len(search.out) <= MAX_SEARCH_RESULTS

\* a catalog larger than the cap was browsed with pinning on, and the cap was met
C8_Witness ==
    /\ Searched
    /\ Len(emojis) > MAX_SEARCH_RESULTS
    /\ search.max_top > 0
    /\ DOMAIN ranks # {}
    /\ Len(search.out) = MAX_SEARCH_RESULTS

\* C9: every id get_emojis returns is the id of an item of the catalog, for
\* every query (a literal glyph and a glyph followed by U+FE0F included),
\* every N and every ledger, also one that holds ids the catalog lacks.
C9_ResultsAreCatalogIds ==
    Searched => Range(search.out) \subseteq CatalogIds

\* the most used id of the ledger is not in the catalog, and a browse with
\* pinning on returned the catalog with the ledger's other id in front
C9_Witness ==
    /\ Searched
    /\ search.max_top >= 2
    /\ GlyphX \in DOMAIN ranks
    /\ GlyphX \notin CatalogIds
    /\ \A e \in DOMAIN ranks : ranks[GlyphX] >= ranks[e]
    /\ Len(search.out) = Len(emojis)
    /\ Len(search.out) >= 3
    /\ search.out[1] = GlyphA
    /\ emojis[1].emoji # GlyphA

\* the ids in T are top_n entries of the ledger r with the highest counts
IsTopSet(T, r, top_n) ==
    /\ T \subseteq DOMAIN r
    /\ Cardinality(T) = Min(top_n, Cardinality(DOMAIN r))
    /\ \A a \in T, b \in (DOMAIN r) \ T : r[a] >= r[b]

\* out is: the ids of T that occur in list, once each and in descending
\* count order, and then the elements of list outside T in their order
IsPinned(out, list, T, r) ==
    \E k \in 0..Len(out) :
        /\ Range(SubSeq(out, 1, k)) = T \cap Range(list)
        /\ Cardinality(Range(SubSeq(out, 1, k))) = k
        /\ \A i \in 1..(k - 1) : r[out[i]] >= r[out[i + 1]]
        /\ SubSeq(out, k + 1, Len(out)) = SelectSeq(list, LAMBDA e : e \notin T)

\* C10: top-N pinning.  For top_n > 0, order_emojis_by_usage(items, top_n)
\* returns first the ids that are among the top_n highest-count entries of
\* the whole ledger and occur in items, in descending count order, and then
\* every other element of items in its original relative order; the ledger
\* {A:5, B:3} with items [C, A, B] and top_n = 10 gives [A, B, C].
C10_TopNPinning ==
    (Ordered /\ search.max_top > 0) =>
        /\ \E T \in SUBSET DOMAIN ranks :
              /\ IsTopSet(T, ranks, search.max_top)
              /\ IsPinned(search.out, search.items, T, ranks)
        /\ ( /\ ranks = (GlyphA :> 5) @@ (GlyphB :> 3)
             /\ search.items = <<GlyphC, GlyphA, GlyphB>>
             /\ search.max_top = DEFAULT_MAX_TOP_EMOJIS )
               => search.out = <<GlyphA, GlyphB, GlyphC>>

\* the example of the claim has been run
C10_Witness ==
    /\ Ordered
    /\ ranks = (GlyphA :> 5) @@ (GlyphB :> 3)
    /\ search.items = <<GlyphC, GlyphA, GlyphB>>
    /\ search.max_top = DEFAULT_MAX_TOP_EMOJIS
    /\ search.out = <<GlyphA, GlyphB, GlyphC>>

(***************************************************************************)
(* The branches of get_emojis (SpecSearch).  The length of a query is its  *)
(* number of characters.                                                   *)
(***************************************************************************)
Normalized(q) == ToLowercase(Trim(q))

\* the trimmed query, or its U+FE0F-stripped form, is the id of a catalog item
IsGlyphQuery(q) ==
    \/ Trim(q) \in CatalogIds
    \/ /\ VARIATION_SELECTOR \in Range(Trim(q))
       /\ StripVariationSelector(Trim(q)) \in CatalogIds

\* the list get_emojis holds before the ranking step
UnrankedList(q) ==
    IF glyph_bypass(Trim(q), keywords) # None
    THEN glyph_bypass(Trim(q), keywords)[1]
    ELSE emoji_list(Normalized(q), emojis, index)

\* C11: ranking stability.  With an empty ledger get_emojis(q, N) returns,
\* for every q and N, exactly the unranked list in its original order.
C11_RankingStability ==
    (Searched /\ DOMAIN ranks = {}) => search.out = UnrankedList(search.query)

\* a search whose bucket holds two items was ranked against an empty ledger
C11_Witness ==
    /\ Searched
    /\ DOMAIN ranks = {}
    /\ search.max_top = DEFAULT_MAX_TOP_EMOJIS
    /\ search.query = <<115, 109>>
    /\ search.out = <<GlyphC, GlyphA>>

\* C12: with top_n = 0 get_emojis skips the reordering: for every query and
\* every ledger the result is the unranked list, same elements in the same
\* order, which does not depend on the ledger.
C12_ZeroSkipsReordering ==
    (Searched /\ search.max_top = 0) => search.out = UnrankedList(search.query)

\* a browse with top_n = 0 over a ledger that would have pinned two items
C12_Witness ==
    /\ Searched
    /\ search.max_top = 0
    /\ ranks = (GlyphA :> 5) @@ (GlyphB :> 3)
    /\ search.query = <<>>
    /\ search.out = <<GlyphC, GlyphA, GlyphB>>

\* C13: glyph bypass.  If the trimmed query is exactly the id of a catalog
\* item, get_emojis returns [that id], whatever MIN_SEARCH_LENGTH, top_n and
\* the ledger are; if the query holds U+FE0F and only its stripped form is a
\* catalog id, it returns [stripped form].
C13_GlyphBypass ==
    Searched =>
        LET original == Trim(search.query)
            stripped == StripVariationSelector(original)
        IN  /\ original \in CatalogIds => search.out = <<original>>
            /\ ( /\ original \notin CatalogIds
                 /\ VARIATION_SELECTOR \in Range(original)
                 /\ stripped \in CatalogIds ) => search.out = <<stripped>>

\* a glyph followed by U+FE0F was searched with pinning on, in a catalog of
\* three items and with a ledger that ranks another id first
C13_Witness ==
    /\ Searched
    /\ search.query = GlyphB \o <<VARIATION_SELECTOR>>
    /\ search.max_top > 0
    /\ GlyphA \in DOMAIN ranks
    /\ Len(emojis) = 3
    /\ search.out = <<GlyphB>>

\* the first min(catalog size, MAX_SEARCH_RESULTS) ids of the catalog
CatalogHead == [i \in 1..Min(Len(emojis), MAX_SEARCH_RESULTS) |-> emojis[i].emoji]

\* C14: browse-all fallback.  When the trimmed, lowercased query is shorter
\* than MIN_SEARCH_LENGTH and is not a catalog glyph, get_emojis returns the
\* first min(catalog size, MAX_SEARCH_RESULTS) items in catalog order (here
\* for the calls in which no ranking is applied).
C14_BrowseAllFallback ==
    ( /\ Searched
      /\ search.max_top = 0
      /\ ~IsGlyphQuery(search.query)
      /\ Len(Normalized(search.query)) < MIN_SEARCH_LENGTH )
        => search.out = CatalogHead

\* the ids at the first MAX_SEARCH_RESULTS positions of the bucket of key w
BucketIds(w) ==
    [i \in 1..Min(Len(index[w]), MAX_SEARCH_RESULTS) |-> emojis[index[w][i] + 1].emoji]

\* what C15 says of a query whose normalized form is w
NoMatchIsEmpty(w) ==
    /\ search.result = "Ok"
    /\ w \notin DOMAIN index => search.out = <<>>
    /\ w \in DOMAIN index =>
          /\ search.max_top = 0 => search.out = BucketIds(w)
          /\ Range(search.out) = Range(BucketIds(w))
          /\ Len(search.out) = Len(BucketIds(w))

\* C15 as stated: a query of length at least MIN_SEARCH_LENGTH whose
\* normalized form is not an index key gives Ok and an empty list; when the
\* key is present the result is the bucket's positions mapped to ids, capped.
C15_NoMatchIsEmptyAnyQuery ==
    (Searched /\ Len(Normalized(search.query)) >= MIN_SEARCH_LENGTH)
        => NoMatchIsEmpty(Normalized(search.query))

\* C15, amended: the same for a query that is not a catalog glyph (as typed
\* or with U+FE0F stripped); a glyph query returns the glyph.
C15_NoMatchIsEmpty ==
    ( /\ Searched
      /\ ~IsGlyphQuery(search.query)
      /\ Len(Normalized(search.query)) >= MIN_SEARCH_LENGTH )
        => NoMatchIsEmpty(Normalized(search.query))

\* a query without a bucket was searched with pinning on over a ledger that
\* ranks catalog ids
C15_Witness ==
    /\ Searched
    /\ search.query = <<122, 122>>
    /\ search.max_top > 0
    /\ DOMAIN ranks \cap CatalogIds # {}
    /\ search.result = "Ok"
    /\ search.out = <<>>

(***************************************************************************)
(* The inverted index of an initialized engine (SpecSearch).  Lengths are  *)
(* numbers of characters.                                                  *)
(***************************************************************************)
\* the key w has a bucket that holds the position pos
Indexed(w, pos) == w \in DOMAIN index /\ pos \in Range(index[w])

\* k and its prefixes of length 2..min(12, len(k))
PrefixKeys(k) ==
    {k} \cup {SubSeq(k, 1, i) : i \in MIN_KEYWORD_LENGTH..Min(MAX_PREFIX_LENGTH, Len(k))}

\* the words of a keyword that splits into more than one word
WordsOf(k) ==
    LET words == SplitWhitespace(ReplaceChar(k, 45, 32))
    IN  IF Len(words) > 1 THEN Range(words) ELSE {}

\* the KeywordSet of the item at position i (1-based) of the catalog
KeywordSet(i) == keywords[emojis[i].emoji]

\* the keywords of item i and the words of its multi-word keywords
IndexedStrings(i) ==
    Range(KeywordSet(i)) \cup UNION {WordsOf(k) : k \in Range(KeywordSet(i))}

\* C16: prefix completeness.  After build_index, for every item and every
\* keyword k of its KeywordSet with at least 2 characters, k and every
\* prefix of k of length 2..min(12, len(k)) are index keys whose bucket holds
\* the item's position; a prefix of a length strictly between 12 and len(k)
\* is not added by k: it is indexed for the item only when it is itself a
\* keyword of the item or a word of one.
C16_PrefixCompleteness ==
    \A i \in 1..Len(emojis) :
        \A k \in Range(KeywordSet(i)) :
            Len(k) >= MIN_KEYWORD_LENGTH =>
                /\ \A w \in PrefixKeys(k) : Indexed(w, i - 1)
                /\ \A j \in (MAX_PREFIX_LENGTH + 1)..(Len(k) - 1) :
                      Indexed(SubSeq(k, 1, j), i - 1)
                          => SubSeq(k, 1, j) \in IndexedStrings(i)

\* the 12-character prefix of a 27-character description was searched and
\* found its item; the description is a key, its 13-character prefix is not
C16_Witness ==
    /\ Searched
    /\ search.query = SubSeq(KeywordNormalize(GrinningDescription), 1, MAX_PREFIX_LENGTH)
    /\ search.out = <<GlyphStar>>
    /\ Indexed(KeywordNormalize(GrinningDescription), 0)
    /\ SubSeq(KeywordNormalize(GrinningDescription), 1, MAX_PREFIX_LENGTH + 1)
           \notin DOMAIN index

\* C17: word-by-word indexing.  For every keyword that splits into more than
\* one word after replacing hyphens by spaces and splitting on whitespace,
\* each word of at least 2 characters and each of its prefixes of length
\* 2..min(12, len) is an index key whose bucket holds the item's position, so
\* that a search for one such word (not a catalog glyph, bucket within
\* MAX_SEARCH_RESULTS) returns the item.
C17_WordByWordIndexing ==
    \A i \in 1..Len(emojis) :
        \A k \in Range(KeywordSet(i)) :
            \A word \in WordsOf(k) :
                Len(word) >= MIN_KEYWORD_LENGTH =>
                    /\ \A w \in PrefixKeys(word) : Indexed(w, i - 1)
                    /\ ( /\ Searched
                         /\ ~IsGlyphQuery(search.query)
                         /\ Normalized(search.query) \in PrefixKeys(word)
                         /\ Len(index[Normalized(search.query)]) <= MAX_SEARCH_RESULTS )
                            => emojis[i].emoji \in Range(search.out)

\* the second word of the hyphenated description "tear-off" was searched and
\* found its item
C17_Witness ==
    /\ Searched
    /\ search.query = <<111, 102, 102>>
    /\ search.max_top = 0
    /\ GlyphB \in DOMAIN keywords
    /\ <<116, 101, 97, 114, 45, 111, 102, 102>> \in Range(keywords[GlyphB])
    /\ search.out = <<GlyphB>>

(***************************************************************************)
(* The builders called again (SpecInit)                                    *)
(***************************************************************************)
\* the flag a builder checks first
FlagOf(b) ==
    CASE b = "load_emojis" -> emojis_loaded
      [] b = "load_ranks" -> ranks_loaded
      [] b = "build_keywords" -> keywords_built
      [] b = "build_index" -> index_built

\* thread t stands at the entry of builder b: called directly (empty stack)
\* or from initialize or build_keywords
AtEntryOf(t, b) == thr[t].pc = EntryOf(b)

\* C18: idempotent builders.  A call of load_emojis, load_ranks,
\* build_keywords or build_index that finds its flag set (a first call has
\* succeeded) returns Ok in its first step, does no work (nothing is read,
\* built or stored) and leaves catalog, ledger, keyword table, index and the
\* four flags as they were.
C18_IdempotentBuilders ==
    [][\A t \in Threads : \A b \in BuilderNames :
          (AtEntryOf(t, b) /\ FlagOf(b) /\ Stepped(t)) =>
              /\ engineVars' = engineVars
              /\ IF thr[t].stack = <<>>
                 THEN /\ thr'[t] = IdleThread
                      /\ last_return' = [op |-> b, result |-> "Ok"]
                 ELSE /\ thr'[t].pc = Head(thr[t].stack)
                      /\ thr'[t].stack = Tail(thr[t].stack)]_vars

\* build_index, which cannot fail, was called twice and nothing else was
\* called; both calls have returned and the index was stored once
C18_Witness ==
    /\ ops_seen = {"build_index"}
    /\ ncalls = 2
    /\ AllReturned
    /\ index_built
    /\ stores["build_index"] = 1
    /\ last_return = [op |-> "build_index", result |-> "Ok"]

(***************************************************************************)
(* The effect of increment_usage and remove_emoji_rank (Spec)              *)
(***************************************************************************)
\* thread t, inside a call of op, takes a step
StepOf(t, op) == thr[t].op = op /\ Stepped(t)

\* the ledgers r and q agree on every id but e
SameButFor(r, q, e) ==
    /\ DOMAIN r \ {e} = DOMAIN q \ {e}
    /\ \A k \in DOMAIN r \ {e} : r[k] = q[k]

\* C19: increment_usage(id, amount) adds amount (1 when omitted) to the
\* counter of id, creating the entry from 0 when it is absent, leaves every
\* other ledger entry, the catalog, the keyword table and the index
\* unchanged, and then schedules a write-back: it sets the dirty flag,
\* stamps the time and returns Ok with a worker active.
C19_IncrementUsageFrame ==
    [][\A t \in Threads :
          StepOf(t, "increment_usage") =>
              /\ catVars' = catVars
              /\ IF thr[t].pc = "inc_add"
                 THEN LET id == thr[t].emoji
                          amount == IF thr[t].given = None THEN 1 ELSE thr[t].given[1]
                      IN  /\ id \in DOMAIN ranks'
                          /\ ranks'[id] =
                                (IF id \in DOMAIN ranks THEN ranks[id] ELSE 0) + amount
                          /\ SameButFor(ranks, ranks', id)
                          /\ thr'[t].pc = "sw_pending"
                 ELSE ranks' = ranks
              /\ thr[t].pc = "sw_pending" => pending_writes'
              /\ thr[t].pc = "sw_stamp" => last_write_time' = 0
              /\ Returned(t) =>
                    /\ thr[t].pc = "sw_cas"
                    /\ write_worker_active'
                    /\ last_return' = [op |-> "increment_usage", result |-> "Ok"]]_vars

\* the only call so far, increment_usage(B) with the amount omitted, has
\* created the entry of B with 1 next to the entry of A and is scheduling
C19_Witness ==
    /\ ncalls = 1
    /\ \E t \in Threads :
          /\ thr[t].op = "increment_usage"
          /\ thr[t].emoji = GlyphB
          /\ thr[t].given = None
          /\ thr[t].pc = "sw_cas"
    /\ pending_writes
    /\ ranks = (GlyphA :> 1) @@ (GlyphB :> 1)
    /\ emojis # <<>>

\* C20: remove_emoji_rank(id) deletes the ledger entry of id when present
\* and leaves all other entries unchanged; when id has no entry it returns
\* Ok and is a no-op that leaves the ledger unchanged.
C20_RemoveEmojiRank ==
    [][\A t \in Threads :
          StepOf(t, "remove_emoji_rank") =>
              /\ IF thr[t].pc = "rm_remove"
                 THEN LET id == thr[t].emoji
                      IN  /\ id \notin DOMAIN ranks'
                          /\ SameButFor(ranks, ranks', id)
                          /\ id \notin DOMAIN ranks => ranks' = ranks
                 ELSE ranks' = ranks
              /\ Returned(t) =>
                    last_return' = [op |-> "remove_emoji_rank", result |-> "Ok"]]_vars

\* after an increment_usage(B) and a remove_emoji_rank, which returned last,
\* the entry of A is gone and the entry of B is there
C20_Witness ==
    /\ ops_seen = {"increment_usage", "remove_emoji_rank"}
    /\ ncalls = 2
    /\ AllReturned
    /\ last_return = [op |-> "remove_emoji_rank", result |-> "Ok"]
    /\ GlyphA \notin DOMAIN ranks
    /\ GlyphB \in DOMAIN ranks

(***************************************************************************)
(* The usage counters as numbers (SpecOverflow)                            *)
(***************************************************************************)
\* some thread takes the step of remove_emoji_rank(id) that removes
RemovesRank(id) ==
    \E t \in Threads : thr[t].pc = "rm_remove" /\ thr[t].emoji = id /\ Stepped(t)

\* some thread takes the step of reset_ranks that clears
ClearsRanks == \E t \in Threads : thr[t].pc = "rs_clear" /\ Stepped(t)

\* C21: the usage counter of an id never decreases in a step that is neither
\* the removal of that id nor the clearing of reset_ranks; in particular
\* increment_usage on a counter close to u32::MAX does not give a smaller
\* counter.
C21_CounterNeverDecreases ==
    [][\A id \in Glyphs :
          (~RemovesRank(id) /\ ~ClearsRanks)
              => ~U32Less(Count(ranks', id), Count(ranks, id))]_vars

(***************************************************************************)
(* Loading the ledger (SpecInit)                                           *)
(***************************************************************************)
\* the ledger a file gives: its counts when it holds a ledger document, the
\* empty ledger when it is missing or holds anything else
LedgerOf(file) == IF file.kind = "json" THEN FromJson(file.doc) ELSE EmptyLedger

\* C22: loading the usage ledger never fails the engine.  Whatever the
\* ledger file is (missing, unreadable, unparsable, a ledger document),
\* load_ranks goes on from its read to store a ledger, the empty one unless
\* the file was read and parsed, and the store sets ranks_loaded and returns
\* Ok to the caller (initialize goes on to build_keywords).
C22_LoadRanksNeverFails ==
    [][\A t \in Threads :
          /\ (thr[t].pc = "lr_read" /\ Stepped(t)) =>
                /\ thr'[t].pc = "lr_store"
                /\ thr'[t].content \in {LedgerOf(ranks_file), EmptyLedger}
          /\ (thr[t].pc = "lr_store" /\ Stepped(t)) =>
                /\ ranks_loaded'
                /\ ranks' = thr[t].content
                /\ IF thr[t].stack = <<>>
                   THEN last_return' = [op |-> "load_ranks", result |-> "Ok"]
                   ELSE thr'[t].pc = Head(thr[t].stack)]_vars

(***************************************************************************)
(* Failures of the mutation API and of the worker's write (Spec)           *)
(***************************************************************************)
Mutations == {"increment_usage", "remove_emoji_rank", "reset_ranks"}

\* C23: a mutation that fails does not corrupt shared state.  When the only
\* call made so far was a mutation and it has returned an error, the
\* in-memory ledger is the one the engine had before the call.
C23_FailedMutationLeavesLedger ==
    ( /\ ncalls = 1
      /\ AllReturned
      /\ last_return.op \in Mutations
      /\ last_return.result = "Err" )
        => ranks = LedgerOf(InitRanksFile)

(***************************************************************************)
(* get_keywords (SpecSearch)                                               *)
(***************************************************************************)
\* C24: get_keywords(id) returns the KeywordSet of the item when id is a
\* catalog id (keywords are built), returns Ok with an empty list for an id
\* that is not in the keyword table, never an error, and changes no state.
C24_GetKeywords ==
    [][(search.op = "none" /\ search'.op = "get_keywords") =>
          /\ search'.result = "Ok"
          /\ \A i \in 1..Len(emojis) :
                emojis[i].emoji = search'.query => search'.out = ItemKeywords(emojis[i])
          /\ search'.query \notin DOMAIN keywords => search'.out = <<>>
          /\ searchFrame' = searchFrame]_vars

\* get_keywords was asked for an item with a description, an alias and two
\* tags and gave its four keywords
C24_Witness ==
    /\ search.op = "get_keywords"
    /\ search.query = GlyphB
    /\ GlyphB \in CatalogIds
    /\ Len(search.out) = 4
    /\ search.out[1] = <<116, 101, 97, 114, 45, 111, 102, 102>>

(***************************************************************************)
(* The worker's timing and its write (Spec).  last_write_time is the time  *)
(* elapsed since the most recent mutation stamped it.                      *)
(***************************************************************************)
\* worker w writes the file in this step
Writes(w) == worker[w].pc = "write" /\ worker'[w].pc = "clear_pending"

\* C25: quiet period.  Every durable write of the worker happens when at
\* least write_delay has elapsed since the most recent mutation: a mutation
\* that arrives while the worker sleeps, or between its quiet-period check
\* and its write, postpones the write.
C25_QuietPeriod ==
    [][\A w \in WorkerIds : Writes(w) => ~(last_write_time < write_delay)]_vars

\* worker w fails to write the file in this step
FailsToWrite(w) == worker[w].pc = "write" /\ worker'[w].pc = "finish"

\* the places of a worker that has its write attempt before it
BeforeWrite == {"read_pending", "read_elapsed", "sleep", "snapshot", "unlock", "write"}

\* thread t takes the compare_exchange step of schedule_write
Schedules(t) == thr[t].pc = "sw_cas" /\ Stepped(t)

\* C26: a worker activation makes at most one write attempt and then
\* returns to Idle, also when the write fails; a failed write leaves the
\* dirty flag set; no worker starts until a mutation schedules one; and a
\* mutation that is made after a failed write has, when its schedule_write
\* is done, a worker that has its write attempt before it.
C26_FailedWriteRetried ==
    [][/\ \A w \in WorkerIds :
            /\ (worker[w].pc = "write" /\ worker'[w] # worker[w])
                  => worker'[w].pc \in {"clear_pending", "finish"}
            /\ (worker[w].pc = "clear_pending" /\ worker'[w] # worker[w])
                  => worker'[w].pc = "finish"
            /\ (worker[w].pc = "finish" /\ worker'[w] # worker[w])
                  => (worker'[w].pc = "none" /\ ~write_worker_active')
            /\ FailsToWrite(w) => (pending_writes' /\ ranks_file' = ranks_file)
            /\ (worker[w].pc = "none" /\ worker'[w].pc # "none")
                  => \E t \in Threads : Schedules(t)
       /\ \A t \in Threads :
            (Schedules(t) /\ thr[t].late)
                => \E w \in WorkerIds : worker'[w].pc \in BeforeWrite]_vars

(***************************************************************************)
(* Termination of the worker (SpecLive)                                    *)
(***************************************************************************)
\* C27: the write-back worker self-terminates.  Under fair scheduling, once
\* the calls have stopped every active worker reaches Idle and
\* write_worker_active is false from then on; and the flag is never true
\* without a worker that is reading, sleeping, writing or finishing.
C27_WorkerTerminates ==
    /\ <>[](ActiveWorkers = {} /\ ~write_worker_active)
    /\ [](write_worker_active => ActiveWorkers # {})

\* a worker has written the ledger of two calls and has returned to Idle
C27_Witness ==
    /\ ncalls = MaxLiveCalls
    /\ AllReturned
    /\ nwrites >= 1
    /\ ActiveWorkers = {}
    /\ ~write_worker_active

(***************************************************************************)
(* The data lock and the file (Spec)                                       *)
(***************************************************************************)
\* who holds the data lock, shared or exclusive
LockHolders ==
    {<<"worker", w>> : w \in Readers} \cup {<<"thread", t>> : t \in {data_writer} \cap Threads}

\* who is about to write the ledger file, or is writing it
FileWriters ==
    {<<"worker", w>> : w \in {v \in WorkerIds : worker[v].pc = "write"}}
        \cup {<<"thread", t>> : t \in {u \in Threads : thr[u].pc = "rs_write"}}

\* C28: the data lock is never held during durable I/O.  The worker has
\* dropped the shared guard of its snapshot when it writes the file,
\* reset_ranks has dropped the exclusive guard when it writes, and
\* increment_usage and remove_emoji_rank hold the exclusive guard for the map
\* update only.
C28_NoLockDuringIo ==
    /\ LockHolders \cap FileWriters = {}
    /\ \A t \in Threads :
          data_writer = t => thr[t].pc \in {"inc_add", "rm_remove", "rs_clear"}

\* the worker writes the file while a caller holds the exclusive guard, and
\* a reset_ranks is about to write the file too
C28_Witness ==
    /\ \E w \in WorkerIds : worker[w].pc = "write"
    /\ \E t \in Threads : data_writer = t /\ thr[t].pc = "inc_add"
    /\ \E t \in Threads : thr[t].pc = "rs_write"

(***************************************************************************)
(* The built data (SpecInit)                                               *)
(***************************************************************************)
\* C30: catalog, keyword table and inverted index are built exactly once
\* and are read-only thereafter: once emojis_loaded, keywords_built or
\* index_built is true it stays true and the corresponding data never
\* changes again, under every interleaving of initialize and of direct calls
\* of the builders.
C30_BuiltOnceThenReadOnly ==
    [][/\ emojis_loaded => (emojis_loaded' /\ emojis' = emojis)
       /\ keywords_built => (keywords_built' /\ keywords' = keywords)
       /\ index_built => (index_built' /\ index' = index)]_vars

(***************************************************************************)
(* SpecLocks: the locking skeleton of the manager.  Every call is reduced  *)
(* to the lock requests and guard drops it makes, in program order, and    *)
(* callers of all seven operations run against each other and against the  *)
(* worker.  thr[t].content is the path a call takes, thr[t].stack what is  *)
(* left of it; worker[w].remaining counts the steps the worker has left.   *)
(***************************************************************************)
MaxLockCalls == 3

Acquire(lock, mode) == [do |-> "acquire", lock |-> lock, mode |-> mode]
Drop(lock) == [do |-> "drop", lock |-> lock, mode |-> "none"]

\* { let data = self.data.read()?; ... }
ReadScope == <<Acquire("data", "read"), Drop("data")>>
\* { let mut data = self.data.write()?; ... }
WriteScope == <<Acquire("data", "write"), Drop("data")>>
\* if let Ok(mut g) = m.lock() { ... }   and   m.lock().map(|g| ...)
MutexScope(m) == <<Acquire(m, "lock"), Drop(m)>>

\* a slip: the braces around the flag check are missing, so its read guard
\* lives until the function returns
load_emojis_locks_unscoped ==
    <<Acquire("data", "read"), Acquire("data", "write"), Drop("data"), Drop("data")>>

\* load_emojis: the flag check, then the store
load_emojis_locks == ReadScope \o WriteScope

\* load_ranks: the flag check, then the store
load_ranks_locks == ReadScope \o WriteScope

\* build_keywords: the flag check, load_emojis (which returns after its own
\* flag check inside initialize), the pass over the catalog, the store
build_keywords_locks(inner) == ReadScope \o inner \o ReadScope \o WriteScope

\* build_index: the flag check, the pass over catalog and keywords, the store
build_index_locks == ReadScope \o ReadScope \o WriteScope

\* initialize: nothing when init_success is set; the init_lock around the
\* second check; the init_lock around the four steps
initialize_locks ==
    { <<>>,
      MutexScope("init_lock"),
      <<Acquire("init_lock", "lock")>> \o load_emojis_locks \o load_ranks_locks
          \o build_keywords_locks(ReadScope) \o build_index_locks
          \o <<Drop("init_lock")>>,
      \* load_ranks fails: the ? drops _guard
      <<Acquire("init_lock", "lock")>> \o load_emojis_locks \o ReadScope
          \o <<Drop("init_lock")>> }

\* get_emojis: the glyph check; then the list; then order_emojis_by_usage
get_emojis_locks ==
    { ReadScope, ReadScope \o ReadScope, ReadScope \o ReadScope \o ReadScope }

get_keywords_locks == { ReadScope }

\* schedule_write before the compare_exchange
schedule_write_locks == MutexScope("pending_writes") \o MutexScope("last_write_time")

increment_usage_locks == { WriteScope \o schedule_write_locks }
remove_emoji_rank_locks == { WriteScope \o schedule_write_locks }
reset_ranks_locks == { WriteScope }

\* one lap of the worker: (p, e), the snapshot, the clearing of pending
worker_locks ==
    schedule_write_locks \o ReadScope \o MutexScope("pending_writes")

\* the places at which the worker leaves or starts its lap again, counted in
\* steps still to do: after (p, e), after the snapshot, at the end
AfterPE == Len(worker_locks) - Len(schedule_write_locks)
AfterSnapshot == Len(MutexScope("pending_writes"))

LockOps == {"initialize", "get_emojis", "get_keywords", "increment_usage",
            "remove_emoji_rank", "reset_ranks"}

LockPaths(op) ==
    CASE op = "initialize" -> initialize_locks
      [] op = "get_emojis" -> get_emojis_locks
      [] op = "get_keywords" -> get_keywords_locks
      [] op = "increment_usage" -> increment_usage_locks
      [] op = "remove_emoji_rank" -> remove_emoji_rank_locks
      [] op = "reset_ranks" -> reset_ranks_locks

LockWorker == 1
Agents == {<<"thread", t>> : t \in Threads} \cup {<<"worker", LockWorker>>}

Busy(a) ==
    IF a[1] = "thread" THEN thr[a[2]].pc = "locks" ELSE worker[a[2]].pc = "locks"

\* the steps an agent has taken, and the steps it has left
StepsDone(a) ==
    IF a[1] = "thread"
    THEN SubSeq(thr[a[2]].content, 1, Len(thr[a[2]].content) - Len(thr[a[2]].stack))
    ELSE SubSeq(worker_locks, 1, Len(worker_locks) - worker[a[2]].remaining)

StepsLeft(a) ==
    IF a[1] = "thread"
    THEN thr[a[2]].stack
    ELSE SubSeq(worker_locks, Len(worker_locks) - worker[a[2]].remaining + 1,
                Len(worker_locks))

\* the guards an agent holds: the requests it has made and not dropped since
GuardMode(steps, lock) ==
    LET on == SelectSeq(steps, LAMBDA s : s.lock = lock)
    IN  IF Len(on) = 0 \/ on[Len(on)].do = "drop" THEN "none" ELSE on[Len(on)].mode

HeldMode(a, lock) == IF Busy(a) THEN GuardMode(StepsDone(a), lock) ELSE "none"

LockNames == {"data", "pending_writes", "last_write_time", "init_lock"}
Held(a) == {l \in LockNames : HeldMode(a, l) # "none"}

Requests(a) == Busy(a) /\ StepsLeft(a) # <<>> /\ StepsLeft(a)[1].do = "acquire"

\* RwLock and Mutex: shared guards exclude an exclusive one, everything else
\* excludes everything, the requester's own guards included
Grantable(s) ==
    IF s.mode = "read"
    THEN \A b \in Agents : HeldMode(b, s.lock) # "write"
    ELSE \A b \in Agents : HeldMode(b, s.lock) = "none"

Advance(a) ==
    IF a[1] = "thread"
    THEN /\ thr' = [thr EXCEPT ![a[2]].stack = Tail(@)]
         /\ UNCHANGED worker
    ELSE /\ worker' = [worker EXCEPT ![a[2]].remaining = @ - 1]
         /\ UNCHANGED thr

lockFrame == <<emojis, ranks, keywords, index, emojis_loaded, ranks_loaded,
               keywords_built, index_built, data_writer, pending_writes,
               last_write_time, write_worker_active, init_lock, init_success,
               emoji_file, ranks_file, search, ops_seen, expected, nwrites,
               write_failed, in_window, stamped, stores, init_failures,
               last_return>>

LockCall(t, op, path) ==
    /\ thr[t].pc = "idle"
    /\ ncalls < MaxLockCalls
    /\ thr' = [thr EXCEPT ![t] = [IdleThread EXCEPT !.pc = "locks", !.op = op,
                                      !.content = path, !.stack = path]]
    /\ ncalls' = ncalls + 1
    /\ UNCHANGED <<worker, lockFrame>>

LockAcquire(a) ==
    /\ Requests(a)
    /\ Grantable(StepsLeft(a)[1])
    /\ Advance(a)
    /\ UNCHANGED <<ncalls, lockFrame>>

LockDrop(a) ==
    /\ Busy(a)
    /\ StepsLeft(a) # <<>>
    /\ StepsLeft(a)[1].do = "drop"
    /\ Advance(a)
    /\ UNCHANGED <<ncalls, lockFrame>>

\* the call returns; increment_usage and remove_emoji_rank end in the
\* compare_exchange of schedule_write, which starts a worker if none is active
LockReturn(t) ==
    /\ thr[t].pc = "locks"
    /\ thr[t].stack = <<>>
    /\ thr' = [thr EXCEPT ![t] = IdleThread]
    /\ IF thr[t].op \in {"increment_usage", "remove_emoji_rank"}
          /\ worker[LockWorker].pc = "none"
       THEN worker' = [worker EXCEPT ![LockWorker] =
                          [NoWorker EXCEPT !.pc = "locks",
                                           !.remaining = Len(worker_locks)]]
       ELSE UNCHANGED worker
    /\ UNCHANGED <<ncalls, lockFrame>>

\* elapsed < write_delay: the worker sleeps the remaining time and reads
\* (p, e) again; p records that it has slept
LockWorkerSleep(w) ==
    /\ worker[w].pc = "locks"
    /\ worker[w].remaining = AfterPE
    /\ ~worker[w].p
    /\ worker' = [worker EXCEPT ![w].remaining = Len(worker_locks), ![w].p = TRUE]
    /\ UNCHANGED <<thr, ncalls, lockFrame>>

\* the worker returns: nothing pending, the snapshot or the write failed, or
\* the lap is over
LockWorkerExit(w) ==
    /\ worker[w].pc = "locks"
    /\ worker[w].remaining \in {AfterPE, AfterSnapshot, 0}
    /\ worker' = [worker EXCEPT ![w] = NoWorker]
    /\ UNCHANGED <<thr, ncalls, lockFrame>>

LockStep(a) ==
    \/ LockAcquire(a)
    \/ LockDrop(a)
    \/ a[1] = "thread" /\ LockReturn(a[2])
    \/ a[1] = "worker" /\ LockWorkerSleep(a[2])
    \/ a[1] = "worker" /\ LockWorkerExit(a[2])

NextLocks ==
    \/ \E t \in Threads, op \in LockOps : \E path \in LockPaths(op) : LockCall(t, op, path)
    \/ \E a \in Agents : LockAcquire(a)
    \/ \E a \in Agents : LockDrop(a)
    \/ \E t \in Threads : LockReturn(t)
    \/ LockWorkerSleep(LockWorker)
    \/ LockWorkerExit(LockWorker)

\* the scheduler never stops while a thread inside a call or a running
\* worker can take a step
FairLocks == WF_vars(\E a \in Agents : LockStep(a))

SpecLocks == Init /\ [][NextLocks]_vars /\ FairLocks

\* what an agent asks for, and who stands in its way: the holders of a guard
\* that excludes the request, and, where the RwLock prefers writers, the
\* writers that are waiting
Excludes(a, b) ==
    LET s == StepsLeft(a)[1]
    IN  \/ IF s.mode = "read" THEN HeldMode(b, s.lock) = "write"
                              ELSE HeldMode(b, s.lock) # "none"
        \/ /\ s.mode = "read"
           /\ b # a
           /\ Requests(b)
           /\ StepsLeft(b)[1].lock = s.lock
           /\ StepsLeft(b)[1].mode = "write"

WaitsFor(a, b) == Requests(a) /\ Excludes(a, b)

RECURSIVE Reach(_, _, _)
Reach(a, b, n) ==
    \/ WaitsFor(a, b)
    \/ n > 0 /\ \E c \in Agents : WaitsFor(a, c) /\ Reach(c, b, n - 1)

InWaitCycle(a) == Reach(a, a, Cardinality(Agents))

TwoLocksAllowed(a) ==
    /\ a[1] = "thread"
    /\ thr[a[2]].op = "initialize"
    /\ Held(a) = {"init_lock", "data"}

NoNestedLocks ==
    \A a \in Agents :
        /\ Cardinality(Held(a)) <= 1 \/ TwoLocksAllowed(a)
        /\ Requests(a) =>
              /\ StepsLeft(a)[1].lock \notin Held(a)
              /\ Held(a) \subseteq {"init_lock"}
              /\ Held(a) = {"init_lock"} => StepsLeft(a)[1].lock = "data"

\* C29: no deadlock is reachable.  Apart from initialize, which holds
\* init_lock while it takes the data lock, no caller and no worker holds two
\* locks at once, asks for a lock while it holds one, or asks again for the
\* data lock it holds; no agent is ever in a cycle of waiting agents, whether
\* or not the RwLock lets waiting writers block readers; and under every
\* interleaving of initialize, get_emojis, get_keywords, increment_usage,
\* remove_emoji_rank, reset_ranks and the worker every lock request is
\* eventually granted, and every call and every worker comes to its end.
C29_NoDeadlock ==
    /\ [](NoNestedLocks /\ \A a \in Agents : ~InWaitCycle(a))
    /\ \A a \in Agents : (Requests(a) ~> ~Requests(a))
    /\ <>[](\A a \in Agents : ~Busy(a))

\* initialize holds init_lock and asks for the exclusive data lock while the
\* other caller holds a shared guard and the worker holds a mutex
C29_Witness ==
    /\ \E t \in Threads :
          /\ thr[t].pc = "locks" /\ thr[t].op = "initialize"
          /\ Held(<<"thread", t>>) = {"init_lock"}
          /\ Requests(<<"thread", t>>)
          /\ StepsLeft(<<"thread", t>>)[1].mode = "write"
          /\ ~Grantable(StepsLeft(<<"thread", t>>)[1])
    /\ \E t \in Threads : thr[t].pc = "locks" /\ HeldMode(<<"thread", t>>, "data") = "read"
    /\ Held(<<"worker", LockWorker>>) = {"pending_writes"}

(***************************************************************************)
(* Preconditions of the builders (SpecInit)                                *)
(***************************************************************************)
\* C31: build_index requires keywords built.  In every reachable state
\* index_built implies keywords_built: no build_index call marks as final an
\* index that was built before the keyword table.
C31_IndexRequiresKeywords == index_built => keywords_built

\* C32: build_keywords requires the catalog and triggers its load when
\* needed.  A build_keywords call that finds keywords not built goes on to
\* load_emojis before it reads the catalog, and in every reachable state
\* keywords_built implies emojis_loaded and the keyword table has exactly one
\* entry per distinct catalog id.
C32_KeywordsRequireCatalog ==
    /\ [](keywords_built => (emojis_loaded /\ DOMAIN keywords = CatalogIds))
    /\ [][\A t \in Threads :
             (thr[t].pc = "bk_check" /\ ~keywords_built /\ Stepped(t))
                => (thr'[t].pc = "le_check" /\ Head(thr'[t].stack) = "bk_build")]_vars

(***************************************************************************)
(* The keyword table and the index of an initialized engine (SpecSearch)   *)
(***************************************************************************)
\* the normalized form of a description, alias or tag
NormalForm(s) == [i \in 1..Len(s) |->
                    IF s[i] = 95 THEN 32
                    ELSE IF s[i] \in 65..90 THEN s[i] + 32 ELSE s[i]]

\* the description of an item, empty when there is none
DescriptionOf(item) == IF item.description = <<>> THEN <<>> ELSE item.description[1]

\* the aliases and the tags of an item
NamesOf(item) ==
    (IF item.aliases = <<>> THEN {} ELSE Range(item.aliases[1]))
        \cup (IF item.tags = <<>> THEN {} ELSE Range(item.tags[1]))

\* C33: the KeywordSet invariant.  For every item the first keyword is the
\* lowercased description with underscores replaced by spaces (the empty
\* string when there is no description); the remaining keywords are exactly
\* the lowercased, underscore-normalized aliases and tags that differ from
\* it, in ascending order of their length (in bytes, as str::len counts), and
\* no keyword occurs twice.
C33_KeywordSetInvariant ==
    \A i \in 1..Len(emojis) :
        LET item == emojis[i]
            ks == keywords[item.emoji]
        IN  /\ Len(ks) >= 1
            /\ ks[1] = NormalForm(DescriptionOf(item))
            /\ {ks[j] : j \in 2..Len(ks)}
                  = {NormalForm(n) : n \in NamesOf(item)} \ {ks[1]}
            /\ \A j, k \in 2..Len(ks) : j < k => ByteLen(ks[j]) <= ByteLen(ks[k])
            /\ \A j, k \in 1..Len(ks) : j < k => ks[j] # ks[k]

\* the item whose aliases and tags repeat its description and each other has
\* the keywords "smile face", "hi", "a b", "happy", and the item without
\* metadata has the empty description alone
C33_Witness ==
    /\ emoji_file = JsonFile(KeysDocument)
    /\ keywords_built
    /\ keywords[GlyphC] = << <<115, 109, 105, 108, 101, 32, 102, 97, 99, 101>>,
                             hi, <<97, 32, 98>>, happy >>
    /\ keywords[GlyphX] = << <<>> >>
    /\ search.op = "get_keywords"
    /\ search.query = GlyphC
    /\ search.out = keywords[GlyphC]

\* C34: the index bucket invariant.  Every bucket of the inverted index is
\* strictly ascending, so sorted by position and free of repeats, and every
\* position in it is a position of the catalog (counted from 0); an unranked
\* search that is answered from a bucket lists the items at the bucket's
\* positions, in that order.
C34_BucketInvariant ==
    /\ \A w \in DOMAIN index :
          /\ \A j \in 1..(Len(index[w]) - 1) : index[w][j] < index[w][j + 1]
          /\ \A j \in 1..Len(index[w]) : index[w][j] \in 0..(Len(emojis) - 1)
    /\ ( /\ Searched
         /\ search.max_top = 0
         /\ ~IsGlyphQuery(search.query)
         /\ Normalized(search.query) \in DOMAIN index )
          => LET bucket == index[Normalized(search.query)]
             IN  /\ Len(search.out) = Min(Len(bucket), MAX_SEARCH_RESULTS)
                 /\ \A j \in 1..Len(search.out) :
                       search.out[j] = emojis[bucket[j] + 1].emoji

\* C35: a reset is never undone by the worker.  When reset_ranks was the last
\* call to return and returned Ok, no call is in progress, and the ledger and
\* the durable document are both empty, no step of a worker makes the
\* document anything but the empty object.
C35_ResetNeverUndone ==
    [][( /\ last_return = [op |-> "reset_ranks", result |-> "Ok"]
         /\ \A t \in Threads : thr[t].pc = "idle"
         /\ ranks = EmptyLedger
         /\ ranks_file = JsonFile({})
         /\ thr' = thr )
          => ranks_file' = JsonFile({})]_vars

\* C36: no stranded dirty state.  Whenever pending_writes is set and no
\* durable write has failed, write_worker_active is true or some caller is
\* inside schedule_write between setting the flag and its compare_exchange.
C36_NoStrandedDirty ==
    (pending_writes /\ ~write_failed) =>
        \/ write_worker_active
        \/ \E t \in Threads : thr[t].pc \in {"sw_stamp", "sw_cas"}

(***************************************************************************)
(* SpecUnloaded: a manager as EmojiManager::new leaves it, over a ledger   *)
(* file with a stored count, whose mutation API is called before           *)
(* initialize or load_ranks has run.                                       *)
(***************************************************************************)
InitUnloaded ==
    /\ InitScheduler
    /\ emoji_file = MissingEmojiFile
    /\ ranks_file = InitRanksFile
    /\ emojis = <<>>
    /\ ranks = EmptyLedger
    /\ expected = EmptyLedger
    /\ keywords = EmptyLedger
    /\ index = EmptyLedger
    /\ emojis_loaded = FALSE
    /\ ranks_loaded = FALSE
    /\ keywords_built = FALSE
    /\ index_built = FALSE
    /\ init_lock = NoThread
    /\ init_success = FALSE
    /\ stores = [b \in BuilderNames |-> 0]
    /\ init_failures = 0
    /\ search = NoSearch

SpecUnloaded == InitUnloaded /\ [][Next]_vars

\* C37: persisted counts are lost only by remove_emoji_rank or reset_ranks.
\* While increment_usage is the only operation that has been called, no
\* successful write of a worker lowers or drops a count stored in the durable
\* document, whether or not the ledger was loaded from it.
C37_CountsKeptByWorker ==
    [][(OnlyIncrements /\ nwrites' = nwrites + 1)
          => \A e \in Glyphs :
                Count(ParseRanks(ranks_file'), e) >= Count(ParseRanks(ranks_file), e)]_vars

DuplicateFree(s) == Cardinality(Range(s)) = Len(s)

\* out holds the elements of the duplicate-free list, each once
PermutationOf(out, list) == Len(out) = Len(list) /\ Range(out) = Range(list)

\* C38: ranking only reorders.  For a list without repeats, whatever the
\* ledger and top_n, order_emojis_by_usage returns a permutation of the list;
\* so the result of get_emojis is a permutation of the list it held before
\* the ranking step, whichever ledger that step finds.
C38_RankingOnlyReorders ==
    /\ (Ordered /\ DuplicateFree(search.items))
          => PermutationOf(search.out, search.items)
    /\ Searched
          => LET list == UnrankedList(search.query)
             IN  DuplicateFree(list) => PermutationOf(search.out, list)

\* the ledger ranks an id that is not in the list above one that is: the
\* list's id moves to the front and the other id is not added
C38_Witness ==
    /\ Ordered
    /\ search.items = <<GlyphC, GlyphA, GlyphB>>
    /\ ranks = (GlyphX :> 7 @@ GlyphA :> 1)
    /\ search.max_top = 2
    /\ search.out = <<GlyphA, GlyphC, GlyphB>>

\* C39: the keyword round trip.  A get_emojis call with max_top_emojis 0
\* whose query is a keyword of at least MIN_KEYWORD_LENGTH bytes of a catalog
\* item, such as get_keywords returns for the item's id, returns that id,
\* provided the keyword's bucket holds at most MAX_SEARCH_RESULTS positions.
C39_KeywordRoundTrip ==
    (Searched /\ search.max_top = 0) =>
        \A id \in CatalogIds :
            LET k == search.query
            IN  ( /\ k \in Range(get_keywords(id, keywords))
                  /\ ByteLen(k) >= MIN_KEYWORD_LENGTH
                  /\ (k \in DOMAIN index => Len(index[k]) <= MAX_SEARCH_RESULTS) )
                   => id \in Range(search.out)
====
